---------------------------- MODULE Spec2Model ----------------------------
(***************************************************************************)
(* A model of the MRF extraction engine (chrscato/mrf-engine):             *)
(*   - ProviderExtractor  (src/src/extract_providers_pro.py)               *)
(*   - RateExtractor      (src/src/extract_rates.py)                       *)
(*   - the task parsers, execute_batch / process_one_extraction            *)
(*                        (src/src/extraction_orchestrator.py)             *)
(*   - run_extraction_workflow (src/src/run_extraction.py)                 *)
(* Each subsystem has its own specification (SpecProvider, SpecRate,       *)
(* SpecBatch, SpecConsolidate, SpecManifestWrite, SpecResolve, SpecParse,  *)
(* SpecWorkflow, SpecScan, SpecSchema, SpecDiscover, SpecLookup); the      *)
(* variables of the other subsystems stay at their initial values under    *)
(* it.                                                                     *)
(***************************************************************************)
EXTENDS Integers, Sequences, FiniteSets, TLC

VARIABLES
    pe,          \* the ProviderExtractor object, its output file and probes
    pe_pc,       \* ProviderExtractor.process_file: "streaming" | "done"
    re,          \* the RateExtractor object, its output file and probes
    re_pc,       \* RateExtractor.process_file: "streaming" | "done" | "crashed"
    ob,          \* execute_batch: its locals, the manifest and the manifest file
    ob_pc,       \* execute_batch: "loop" | "shutdown" | "summary" | "returned" | "raised"
    co,          \* RateExtractor._consolidate_backup_files: its locals and the directory
    co_pc,       \* _consolidate_backup_files: the statement it is at, or "returned"
    mw,          \* the manifest file on disk while execute_batch rewrites it, and a reader
    mw_pc,       \* the manifest write: "idle" | "open" | "closed"
    rs,          \* one run of the generator _iter_provider_groups_from_url and its temp file
    rs_pc,       \* the generator: "start" | "downloaded" | "suspended" | "finally" | "ended"
    pa,          \* a task-source parser, the tasks it built and the log files they open
    pa_pc,       \* the parser and the batch after it: "parsing" | "running"
    wf,          \* run_extraction_workflow: its locals and the files it wrote
    wf_pc,       \* run_extraction_workflow: the step it is at, "returned" or "raised"
    ms,          \* the metadata scan at the head of process_file: the document and the events read
    ms_pc,       \* the metadata scan: "scanning" | "stopped"
    sw,          \* the ParquetWriter of _write_batch: its schema and the tables written
    sw_pc,       \* the writer: "writing" | "failed"
    od,          \* process_one_extraction after the subprocess: the output directory and the result
    od_pc,       \* "running" | "exited" | "recorded"
    lk,          \* clean_providers_by_nppes: one get_enumeration_type call per NPI
    lk_pc        \* "looking_up" | "collected"

vars == <<pe, pe_pc, re, re_pc, ob, ob_pc, co, co_pc, mw, mw_pc,
          rs, rs_pc, pa, pa_pc, wf, wf_pc, ms, ms_pc, sw, sw_pc, od, od_pc,
          lk, lk_pc>>
pe_vars == <<pe, pe_pc>>
re_vars == <<re, re_pc>>
ob_vars == <<ob, ob_pc>>
co_vars == <<co, co_pc>>
mw_vars == <<mw, mw_pc>>
rs_vars == <<rs, rs_pc>>
pa_vars == <<pa, pa_pc>>
wf_vars == <<wf, wf_pc>>
ms_vars == <<ms, ms_pc>>
sw_vars == <<sw, sw_pc>>
od_vars == <<od, od_pc>>
lk_vars == <<lk, lk_pc>>

(***************************************************************************)
(* Bounds of the model.                                                    *)
(***************************************************************************)
MaxRefs == 3        \* provider references in one source stream
MaxBatchSize == 3   \* largest configured batch size (batch sizes are 1..MaxBatchSize)
MaxItems == 2       \* in_network items in one source stream
MaxTasks == 4       \* tasks in one batch
MaxCalls == 2       \* provider references in a source whose calls are examined one by one

(***************************************************************************)
(* Helpers on sequences.                                                   *)
(***************************************************************************)
Range(s) == {s[i] : i \in 1..Len(s)}

Prefix(s, k) == SubSeq(s, 1, k)

(***************************************************************************)
(*                         PROVIDER EXTRACTOR                              *)
(***************************************************************************)
NoLocation == "no_location"
GroupIds == {1, 2}
Locations == {"u1", "u2"}

\* 'group.get("tin", {}) or {}' of a group without a tin: no type, no value
NoTin == [type |-> "", value |-> ""]

\* Provider groups of a document: {tin: {type, value}, npi: [...]}.
G1 == [tin |-> [type |-> "ein", value |-> " t1 "], npi |-> <<"n1">>]
G2 == [tin |-> [type |-> "npi", value |-> "t2"], npi |-> <<"n1", "n2">>]
G3 == [tin |-> NoTin, npi |-> <<"n3">>]
G4 == [tin |-> [type |-> "ein", value |-> "t2"], npi |-> <<>>]

\* The inline 'provider_groups' lists a reference may carry (<<>>: absent or empty).
InlineChoices == { <<>>, <<G1>>, <<G2, G1>>, <<G3, G4>> }

\* str.strip() on the tin values of the documents
Strip(text) == IF text = " t1 " THEN "t1" ELSE text

\* tin_value = str(tin_info.get("value", "")).strip()
TinValue(group) == Strip(group.tin.value)

\* the file metadata process_file reads before the references
FileMetas == {"entity_a", "entity_b"}

\* The document stored at each remote location.
RemoteDoc(url) == IF url = "u1" THEN <<G2, G1>> ELSE <<G1>>

\* One entry of the top-level 'provider_references' array.
ProviderRefs ==
    [provider_group_id : GroupIds, provider_groups : InlineChoices,
     location : Locations \cup {NoLocation}]

\* What the network and the decoder do to one fetch: the download fails, or the
\* document decodes up to (not including) group number failAt+1 and then fails,
\* or it decodes completely.
FetchOutcomes(url) ==
    {[kind |-> "download_error", upto |-> 0]}
      \cup {[kind |-> "decode_error", upto |-> k] : k \in 0..Len(RemoteDoc(url))}
      \cup {[kind |-> "ok", upto |-> Len(RemoteDoc(url))]}

\* ProviderExtractor.__init__
ProviderExtractor_init(batch_size, provider_group_whitelist, tin_whitelist) ==
    [ batch_size |-> batch_size,
      provider_group_whitelist |-> provider_group_whitelist,
      tin_whitelist |-> tin_whitelist,
      providers_batch |-> <<>>,
      providers_examined |-> 0,
      providers_processed |-> 0,
      providers_written |-> 0,
      providers_filtered_by_group |-> 0,
      providers_filtered_by_tin |-> 0,
      ref_files_fetched |-> 0,
      ref_files_errors |-> 0,
      seen_ref_urls |-> {},
      seen_group_ids |-> {},
      \* the output file (output_path): whether it exists, and its rows
      file_exists |-> FALSE,
      file_rows |-> <<>>,
      \* probes: calls of _iter_provider_groups per id, calls of download_to_temp
      \* per url, the ids whose resolution went to each url, ids that occurred in
      \* the stream, references handled
      iter_calls |-> [g \in GroupIds |-> 0],
      downloads |-> [u \in Locations |-> 0],
      url_ids |-> [u \in Locations |-> {}],
      ids_occurred |-> {},
      refs_handled |-> 0,
      \* the file metadata of the source, and probes of the last call of
      \* _process_provider_reference (kept by PE_ResolveReference only): its
      \* reference, what the fetch came to, and the extractor before the call
      file_meta |-> "",
      last_ref |-> [provider_group_id |-> 0, provider_groups |-> <<>>,
                    location |-> NoLocation],
      last_outcome |-> [kind |-> "ok", upto |-> 0],
      before |-> [seen_ref_urls |-> {}, seen_group_ids |-> {}, rows |-> 0,
                  downloads |-> 0, ref_files_errors |-> 0] ]

\* variant: the batch overwrites the file instead of being added to it
ProviderExtractor_write_batch_overwrite(p) ==
    IF p.providers_batch = <<>> THEN p
    ELSE [p EXCEPT !.file_rows = p.providers_batch,
                   !.file_exists = TRUE,
                   !.providers_written = @ + Len(p.providers_batch),
                   !.providers_batch = <<>>]

\* ProviderExtractor._write_batch: read the existing file, concatenate, rewrite.
ProviderExtractor_write_batch(p) ==
    IF p.providers_batch = <<>> THEN p
    ELSE [p EXCEPT
            !.file_rows = (IF p.file_exists THEN p.file_rows ELSE <<>>) \o p.providers_batch,
            !.file_exists = TRUE,
            !.providers_written = @ + Len(p.providers_batch),
            !.providers_batch = <<>>]

\* variant: the row carries the tin value as found, and no file metadata
ProviderRow_raw(id, group, npi, file_meta) ==
    [provider_group_id |-> id, npi |-> npi, tin_type |-> group.tin.type,
     tin_value |-> group.tin.value, file_meta |-> ""]

\* The row emitted for one NPI of one group.
ProviderRow(id, group, npi, file_meta) ==
    [provider_group_id |-> id, npi |-> npi, tin_type |-> group.tin.type,
     tin_value |-> TinValue(group), file_meta |-> file_meta]

\* The inner loop over group.npi: append a row, flush at the batch size.
RECURSIVE EmitNpis(_, _, _, _)
EmitNpis(p, id, group, npis) ==
    IF npis = <<>> THEN p
    ELSE LET rec == ProviderRow(id, group, Head(npis), p.file_meta)
             p1 == [p EXCEPT !.providers_batch = Append(@, rec),
                             !.providers_processed = @ + 1]
             p2 == IF Len(p1.providers_batch) >= p1.batch_size
                   THEN ProviderExtractor_write_batch(p1) ELSE p1
         IN  EmitNpis(p2, id, group, Tail(npis))

\* The loop body of _process_provider_reference for the groups the iterator yields.
RECURSIVE EmitGroups(_, _, _)
EmitGroups(p, id, groups) ==
    IF groups = <<>> THEN p
    ELSE LET g == Head(groups)
             tin_value == TinValue(g)
             p1 == IF p.tin_whitelist # {} /\ tin_value # ""
                        /\ tin_value \notin p.tin_whitelist
                   THEN [p EXCEPT !.providers_filtered_by_tin = @ + 1]
                   ELSE EmitNpis(p, id, g, g.npi)
         IN  EmitGroups(p1, id, Tail(groups))

\* ProviderExtractor._iter_provider_groups_from_url, run to exhaustion by its
\* consumer: the groups it yields and the extractor after it.
\* variant: no test of _seen_ref_urls
IterFromUrlSkipsSeen_never(p, location_url) == FALSE

\* "if location_url in self._seen_ref_urls: return"
IterFromUrlSkipsSeen(p, location_url) == location_url \in p.seen_ref_urls

ProviderExtractor_iter_provider_groups_from_url(p, location_url, outcome) ==
    IF IterFromUrlSkipsSeen(p, location_url)
    THEN [groups |-> <<>>, p |-> p]
    ELSE LET p1 == [p EXCEPT !.seen_ref_urls = @ \cup {location_url},
                             !.downloads[location_url] = @ + 1]
         IN  IF outcome.kind = "download_error"
             THEN [groups |-> <<>>,
                   p |-> [p1 EXCEPT !.ref_files_errors = @ + 1]]
             ELSE IF outcome.kind = "decode_error"
             THEN [groups |-> Prefix(RemoteDoc(location_url), outcome.upto),
                   p |-> [p1 EXCEPT !.ref_files_fetched = @ + 1,
                                    !.ref_files_errors = @ + 1]]
             ELSE [groups |-> RemoteDoc(location_url),
                   p |-> [p1 EXCEPT !.ref_files_fetched = @ + 1]]

\* variant: the location is tried before the inline groups
ProviderExtractor_iter_provider_groups_location_first(p, provider_obj, outcome) ==
    LET p0 == [p EXCEPT !.iter_calls[provider_obj.provider_group_id] = @ + 1]
    IN  IF provider_obj.location # NoLocation
        THEN ProviderExtractor_iter_provider_groups_from_url(
                 [p0 EXCEPT !.url_ids[provider_obj.location] =
                                @ \cup {provider_obj.provider_group_id}],
                 provider_obj.location, outcome)
        ELSE [groups |-> provider_obj.provider_groups, p |-> p0]

\* ProviderExtractor._iter_provider_groups: inline groups first, else the location.
ProviderExtractor_iter_provider_groups(p, provider_obj, outcome) ==
    LET p0 == [p EXCEPT !.iter_calls[provider_obj.provider_group_id] = @ + 1]
    IN  IF provider_obj.provider_groups # <<>>
        THEN [groups |-> provider_obj.provider_groups, p |-> p0]
        ELSE IF provider_obj.location # NoLocation
        THEN ProviderExtractor_iter_provider_groups_from_url(
                 [p0 EXCEPT !.url_ids[provider_obj.location] =
                                @ \cup {provider_obj.provider_group_id}],
                 provider_obj.location, outcome)
        ELSE [groups |-> <<>>, p |-> p0]

\* variant: no test of _seen_group_ids
AlreadySeenGroup_never(p, provider_group_id) == FALSE

\* The duplicate-id test of _process_provider_reference.
AlreadySeenGroup(p, provider_group_id) == provider_group_id \in p.seen_group_ids

\* ProviderExtractor._process_provider_reference
ProviderExtractor_process_provider_reference(p, provider_ref, outcome) ==
    LET id == provider_ref.provider_group_id
        p0 == [p EXCEPT !.providers_examined = @ + 1,
                        !.ids_occurred = @ \cup {id},
                        !.refs_handled = @ + 1]
    IN  IF p0.provider_group_whitelist # {} /\ id \notin p0.provider_group_whitelist
        THEN [p0 EXCEPT !.providers_filtered_by_group = @ + 1]
        ELSE IF AlreadySeenGroup(p0, id)
        THEN p0
        ELSE LET p1 == [p0 EXCEPT !.seen_group_ids = @ \cup {id}]
                 it == ProviderExtractor_iter_provider_groups(p1, provider_ref, outcome)
             IN  EmitGroups(it.p, id, it.groups)

\* ProviderExtractor.process_file, after the stream: the final write.
ProviderExtractor_final_write(p) ==
    IF p.providers_batch # <<>> THEN ProviderExtractor_write_batch(p) ELSE p

ProviderWhitelists == { {}, {1} }
TinWhitelists == { {}, {"t1"} }

PE_Init ==
    /\ \E bs \in 1..MaxBatchSize, wl \in ProviderWhitelists, tw \in TinWhitelists,
          meta \in FileMetas :
          pe = [ProviderExtractor_init(bs, wl, tw) EXCEPT !.file_meta = meta]
    /\ pe_pc = "streaming"

\* One iteration of the loop over provider_references in process_file.
PE_ProcessReference ==
    /\ pe_pc = "streaming"
    /\ pe.refs_handled < MaxRefs
    /\ \E ref \in ProviderRefs :
         \E outcome \in (IF ref.location = NoLocation
                          THEN {[kind |-> "ok", upto |-> 0]}
                          ELSE FetchOutcomes(ref.location)) :
            pe' = ProviderExtractor_process_provider_reference(pe, ref, outcome)
    /\ UNCHANGED pe_pc
    /\ UNCHANGED <<re_vars, ob_vars, co_vars, mw_vars, rs_vars, pa_vars, wf_vars,
                 ms_vars, sw_vars, od_vars, lk_vars>>

\* The stream ends (or max_providers is reached): final write, process_file returns.
PE_Finish ==
    /\ pe_pc = "streaming"
    /\ pe' = ProviderExtractor_final_write(pe)
    /\ pe_pc' = "done"
    /\ UNCHANGED <<re_vars, ob_vars, co_vars, mw_vars, rs_vars, pa_vars, wf_vars,
                 ms_vars, sw_vars, od_vars, lk_vars>>

PE_Next == PE_ProcessReference \/ PE_Finish

\* every row appended so far, written or still in the batch, in order
AllProviderRows(p) == p.file_rows \o p.providers_batch

\* the calls of download_to_temp so far
TotalDownloads(p) ==
    LET RECURSIVE Sum(_)
        Sum(urls) == IF urls = {} THEN 0
                     ELSE LET u == CHOOSE x \in urls : TRUE
                          IN  p.downloads[u] + Sum(urls \ {u})
    IN  Sum(Locations)

\* One iteration of the loop over provider_references, remembering the
\* reference, the fetch outcome and the extractor's state before the call.
PE_ResolveReference ==
    /\ pe_pc = "streaming"
    /\ pe.refs_handled < MaxCalls
    /\ \E ref \in ProviderRefs :
         \E outcome \in (IF ref.location = NoLocation
                          THEN {[kind |-> "ok", upto |-> 0]}
                          ELSE FetchOutcomes(ref.location)) :
            pe' = [ProviderExtractor_process_provider_reference(pe, ref, outcome) EXCEPT
                     !.last_ref = ref,
                     !.last_outcome = outcome,
                     !.before = [seen_ref_urls |-> pe.seen_ref_urls,
                                 seen_group_ids |-> pe.seen_group_ids,
                                 rows |-> Len(AllProviderRows(pe)),
                                 downloads |-> TotalDownloads(pe),
                                 ref_files_errors |-> pe.ref_files_errors]]
    /\ UNCHANGED pe_pc
    /\ UNCHANGED <<re_vars, ob_vars, co_vars, mw_vars, rs_vars, pa_vars, wf_vars,
                 ms_vars, sw_vars, od_vars, lk_vars>>

\* an extractor with a batch size of two rows, at the head of process_file
PR_Init ==
    /\ \E wl \in ProviderWhitelists, tw \in TinWhitelists, meta \in FileMetas :
          pe = [ProviderExtractor_init(2, wl, tw) EXCEPT !.file_meta = meta]
    /\ pe_pc = "streaming"

\* process_file on a source of at most MaxCalls references
PR_Next == PE_ResolveReference \/ PE_Finish

(***************************************************************************)
(*        PROVIDER EXTRACTOR: THE GENERATOR OVER A REMOTE LOCATION         *)
(* _iter_provider_groups_from_url step by step, with its consumer: the     *)
(* generator is suspended at each yield, and the consumer either asks for  *)
(* the next group or stops, which closes the generator (GeneratorExit is   *)
(* raised at the yield; it is not an Exception, so only the with-block and *)
(* the finally clause run).                                                *)
(***************************************************************************)
EmptyLocation == ""     \* a falsy location_url

\* utils.download_to_temp: the path of a new temporary file holding the
\* resource, or an exception that leaves no file behind
download_to_temp(r, ok) ==
    IF ok
    THEN [r EXCEPT !.created = @ + 1, !.temp_path = r.created + 1,
                   !.temp_files = @ \cup {r.created + 1},
                   !.ref_files_fetched = @ + 1]
    ELSE [r EXCEPT !.failed = TRUE, !.ref_files_errors = @ + 1]

\* variant: the file is removed at the end of the try body, not in a finally clause
UnlinkTemp_unless_failed(r) ==
    IF r.failed \/ r.closed THEN r ELSE [r EXCEPT !.temp_files = @ \ {r.temp_path}]

\* "finally: if temp_path: os.unlink(temp_path)"; temp_path 0 is None
UnlinkTemp(r) ==
    IF r.temp_path = 0 THEN r ELSE [r EXCEPT !.temp_files = @ \ {r.temp_path}]

\* the extractor before its first remote reference
iter_provider_groups_from_url_init ==
    [ seen_ref_urls |-> {},
      ref_files_fetched |-> 0,
      ref_files_errors |-> 0,
      \* the generator's arguments and locals: location_url, temp_path, the
      \* number of groups yielded so far
      location_url |-> EmptyLocation,
      temp_path |-> 0,
      yielded |-> 0,
      \* the temporary directory: the files in it, and how many were ever created
      temp_files |-> {},
      created |-> 0,
      \* probes: the generators run so far; this one went through its except
      \* clause; this one was closed by its consumer
      calls |-> 0,
      failed |-> FALSE,
      closed |-> FALSE ]

RS_Init ==
    /\ rs = iter_provider_groups_from_url_init
    /\ rs_pc = "ended"

\* the consumer calls the generator for the location of the next reference: the
\* two early returns, or the location is recorded and the download is next
RS_Enter ==
    /\ rs_pc = "ended"
    /\ rs.calls < MaxCalls
    /\ \E location_url \in Locations \cup {EmptyLocation} :
         LET r == [rs EXCEPT !.location_url = location_url, !.temp_path = 0,
                             !.yielded = 0, !.calls = @ + 1,
                             !.failed = FALSE, !.closed = FALSE]
         IN  IF location_url = EmptyLocation \/ location_url \in rs.seen_ref_urls
             THEN rs' = r /\ rs_pc' = "ended"
             ELSE /\ rs' = [r EXCEPT !.seen_ref_urls = @ \cup {location_url}]
                  /\ rs_pc' = "download"
    /\ UNCHANGED <<pe_vars, re_vars, ob_vars, co_vars, mw_vars, pa_vars, wf_vars,
                 ms_vars, sw_vars, od_vars, lk_vars>>

\* temp_path = download_to_temp(location_url)
RS_Download ==
    /\ rs_pc = "download"
    /\ \E ok \in BOOLEAN :
         /\ rs' = download_to_temp(rs, ok)
         /\ rs_pc' = (IF ok THEN "decoding" ELSE "finally")
    /\ UNCHANGED <<pe_vars, re_vars, ob_vars, co_vars, mw_vars, pa_vars, wf_vars,
                 ms_vars, sw_vars, od_vars, lk_vars>>

\* the loop over ijson.items(f, "provider_groups.item"): the next group is
\* decoded and yielded, or the decoder raises, or the array is exhausted
RS_Decode ==
    /\ rs_pc = "decoding"
    /\ \/ /\ rs.yielded < Len(RemoteDoc(rs.location_url))
          /\ rs' = [rs EXCEPT !.yielded = @ + 1]
          /\ rs_pc' = "suspended"
       \/ /\ rs' = [rs EXCEPT !.failed = TRUE, !.ref_files_errors = @ + 1]
          /\ rs_pc' = "finally"
       \/ /\ rs.yielded = Len(RemoteDoc(rs.location_url))
          /\ rs' = rs
          /\ rs_pc' = "finally"
    /\ UNCHANGED <<pe_vars, re_vars, ob_vars, co_vars, mw_vars, pa_vars, wf_vars,
                 ms_vars, sw_vars, od_vars, lk_vars>>

\* the consumer has handled the group and asks for the next one
RS_Resume ==
    /\ rs_pc = "suspended"
    /\ rs_pc' = "decoding"
    /\ UNCHANGED rs
    /\ UNCHANGED <<pe_vars, re_vars, ob_vars, co_vars, mw_vars, pa_vars, wf_vars,
                 ms_vars, sw_vars, od_vars, lk_vars>>

\* the consumer stops before the generator is exhausted: the generator is closed
RS_Close ==
    /\ rs_pc = "suspended"
    /\ rs' = [rs EXCEPT !.closed = TRUE]
    /\ rs_pc' = "finally"
    /\ UNCHANGED <<pe_vars, re_vars, ob_vars, co_vars, mw_vars, pa_vars, wf_vars,
                 ms_vars, sw_vars, od_vars, lk_vars>>

\* the finally clause; the generator is over
RS_Finally ==
    /\ rs_pc = "finally"
    /\ rs' = UnlinkTemp(rs)
    /\ rs_pc' = "ended"
    /\ UNCHANGED <<pe_vars, re_vars, ob_vars, co_vars, mw_vars, pa_vars, wf_vars,
                 ms_vars, sw_vars, od_vars, lk_vars>>

RS_Next ==
    \/ RS_Enter \/ RS_Download \/ RS_Decode \/ RS_Resume \/ RS_Close \/ RS_Finally

(***************************************************************************)
(*                           RATE EXTRACTOR                                *)
(***************************************************************************)
NoCode == ""            \* item.get("billing_code", "") of an item without the key
BillingCodes == {"99213", "99214", NoCode}

\* negotiated_prices entries
P1 == [negotiated_rate |-> 100, negotiated_type |-> "negotiated"]
P2 == [negotiated_rate |-> 250, negotiated_type |-> "fee schedule"]

\* what p.get("negotiated_rate", 0) meets besides a number: the key is not
\* there, or the key is there with the JSON value null (None)
NoRateKey == -1
NullRate == -2
P3 == [negotiated_rate |-> NoRateKey, negotiated_type |-> "negotiated"]
P4 == [negotiated_rate |-> NullRate, negotiated_type |-> "negotiated"]

\* float(p.get("negotiated_rate", 0)): float(None) raises TypeError
FloatRaises(value) == value = NullRate

\* float(p.get("negotiated_rate", 0)): the default 0 stands in for a missing key
Float(value) == IF value = NoRateKey THEN 0 ELSE value

\* rate groups: {provider_references: [...], negotiated_prices: [...]}
RGa == [provider_references |-> <<1, 2>>, negotiated_prices |-> <<P1, P2>>]
RGb == [provider_references |-> <<3>>,    negotiated_prices |-> <<P1>>]
RGc == [provider_references |-> <<2, 3>>, negotiated_prices |-> <<P2>>]
RGd == [provider_references |-> <<>>,     negotiated_prices |-> <<P1, P2>>]
RGe == [provider_references |-> <<1>>,    negotiated_prices |-> <<P3, P1>>]
RGf == [provider_references |-> <<2>>,    negotiated_prices |-> <<P1, P4>>]

\* the negotiated_rates lists an in_network item may carry
RateLists == { <<>>, <<RGa>>, <<RGb, RGc>>, <<RGd, RGb>>, <<RGc, RGa>>, <<RGe>>,
               <<RGa, RGf>> }

\* one entry of the top-level 'in_network' array
Items == [billing_code : BillingCodes, negotiated_rates : RateLists]

\* which flush of one handler call finds the destination locked (0: none)
LockChoices == {0, 1, 2}

\* RateExtractor.__init__ ; an empty or missing filter is stored as None ({} here)
RateExtractor_init(batch_size, provider_group_filter, cpt_whitelist) ==
    [ batch_size |-> batch_size,
      provider_group_filter |-> provider_group_filter,
      cpt_whitelist |-> cpt_whitelist,
      rates_batch |-> <<>>,
      items_processed |-> 0,
      rates_generated |-> 0,
      rates_written |-> 0,
      writer |-> "none",           \* _writer: "none" | "open"
      \* the output file (output_path) and the backup files beside it
      file_exists |-> FALSE,
      file_rows |-> <<>>,
      backup_files |-> {},
      \* probes: an exception left the handler; flushes that found the file
      \* locked; flushes of the current call; the last item handled, the rows
      \* each of its rate groups emitted, and the rate groups whose provider
      \* list was read; the float() calls that raised; the item stream raised
      raised |-> FALSE,
      lock_hits |-> 0,
      float_errors |-> 0,
      stream_errors |-> 0,
      call_flushes |-> 0,
      items_handled |-> 0,
      last_item |-> [billing_code |-> NoCode, negotiated_rates |-> <<>>],
      last_group_rows |-> <<>>,
      last_groups_read |-> 0 ]

\* variant: a flush does not count the rows it wrote
RateExtractor_write_batch_uncounted(r, locked) ==
    IF r.rates_batch = <<>> THEN r
    ELSE IF locked
    THEN [r EXCEPT !.raised = TRUE, !.lock_hits = @ + 1, !.call_flushes = @ + 1]
    ELSE LET r1 == IF r.writer = "none"
                   THEN [r EXCEPT !.writer = "open", !.file_exists = TRUE, !.file_rows = <<>>]
                   ELSE r
         IN  [r1 EXCEPT !.file_rows = @ \o r.rates_batch,
                        !.rates_batch = <<>>,
                        !.call_flushes = @ + 1]

\* RateExtractor._write_batch; 'locked' is what the file system answers to this write
RateExtractor_write_batch(r, locked) ==
    IF r.rates_batch = <<>> THEN r
    ELSE IF locked
    THEN \* PermissionError out of pq.ParquetWriter(...) / write_table: not caught
         [r EXCEPT !.raised = TRUE, !.lock_hits = @ + 1, !.call_flushes = @ + 1]
    ELSE LET r1 == IF r.writer = "none"
                   THEN [r EXCEPT !.writer = "open", !.file_exists = TRUE, !.file_rows = <<>>]
                   ELSE r
         IN  [r1 EXCEPT !.file_rows = @ \o r.rates_batch,
                        !.rates_written = @ + Len(r.rates_batch),
                        !.rates_batch = <<>>,
                        !.call_flushes = @ + 1]

\* variant: the provider-group filter is not applied
EligibleProviders_unfiltered(r, rate_group) == rate_group.provider_references

\* the providers of a rate group after the provider-group filter
EligibleProviders(r, rate_group) ==
    IF r.provider_group_filter # {}
    THEN SelectSeq(rate_group.provider_references,
                   LAMBDA pr : pr \in r.provider_group_filter)
    ELSE rate_group.provider_references

\* "continue  # Skip entire rate group if no eligible providers"
RateGroupSkipped(r, rate_group) ==
    r.provider_group_filter # {} /\ EligibleProviders(r, rate_group) = <<>>

\* variant: each eligible provider gets the first price only
RateGroupRows_first_price(r, item, rate_group) ==
    IF RateGroupSkipped(r, rate_group) \/ rate_group.negotiated_prices = <<>> THEN <<>>
    ELSE LET providers == EligibleProviders(r, rate_group)
             price == Head(rate_group.negotiated_prices)
         IN  [k \in 1..Len(providers) |->
                [provider_reference_id |-> providers[k],
                 negotiated_rate |-> Float(price.negotiated_rate),
                 negotiated_type |-> price.negotiated_type,
                 billing_code |-> item.billing_code]]

\* the rows of one rate group: providers (outer loop) x price_rows (inner loop)
RateGroupRows(r, item, rate_group) ==
    IF RateGroupSkipped(r, rate_group) THEN <<>>
    ELSE LET providers == EligibleProviders(r, rate_group)
             prices == rate_group.negotiated_prices
             np == Len(prices)
         IN  [k \in 1..(Len(providers) * np) |->
                [provider_reference_id |-> providers[((k - 1) \div np) + 1],
                 negotiated_rate |-> Float(prices[((k - 1) % np) + 1].negotiated_rate),
                 negotiated_type |-> prices[((k - 1) % np) + 1].negotiated_type,
                 billing_code |-> item.billing_code]]

\* the list comprehension that builds price_rows raises at the first entry
\* whose negotiated_rate float() cannot take; no row of the group is appended
PriceRowsRaise(r, rate_group) ==
    /\ ~RateGroupSkipped(r, rate_group)
    /\ \E k \in 1..Len(rate_group.negotiated_prices) :
         FloatRaises(rate_group.negotiated_prices[k].negotiated_rate)

\* variant: the flush comes only when the batch has grown beyond batch_size
RECURSIVE AppendRateRows_late_flush(_, _, _)
AppendRateRows_late_flush(r, rows, lock_at) ==
    IF rows = <<>> \/ r.raised THEN r
    ELSE LET r1 == [r EXCEPT !.rates_batch = Append(@, Head(rows)),
                             !.rates_generated = @ + 1]
             r2 == IF Len(r1.rates_batch) > r1.batch_size
                   THEN RateExtractor_write_batch(r1, r1.call_flushes + 1 = lock_at)
                   ELSE r1
         IN  AppendRateRows_late_flush(r2, Tail(rows), lock_at)

\* append rows one by one, flushing when the batch reaches batch_size; an
\* exception out of a flush ends the handler
RECURSIVE AppendRateRows(_, _, _)
AppendRateRows(r, rows, lock_at) ==
    IF rows = <<>> \/ r.raised THEN r
    ELSE LET r1 == [r EXCEPT !.rates_batch = Append(@, Head(rows)),
                             !.rates_generated = @ + 1]
             r2 == IF Len(r1.rates_batch) >= r1.batch_size
                   THEN RateExtractor_write_batch(r1, r1.call_flushes + 1 = lock_at)
                   ELSE r1
         IN  AppendRateRows(r2, Tail(rows), lock_at)

\* the loop over item["negotiated_rates"]
RECURSIVE ProcessRateGroups(_, _, _, _)
ProcessRateGroups(r, item, groups, lock_at) ==
    IF groups = <<>> \/ r.raised THEN r
    ELSE IF PriceRowsRaise(r, Head(groups))
    THEN [r EXCEPT !.last_groups_read = @ + 1, !.raised = TRUE, !.float_errors = @ + 1]
    ELSE LET before == r.rates_generated
             r1 == AppendRateRows([r EXCEPT !.last_groups_read = @ + 1],
                                  RateGroupRows(r, item, Head(groups)), lock_at)
             r2 == [r1 EXCEPT !.last_group_rows = Append(@, r1.rates_generated - before)]
         IN  ProcessRateGroups(r2, item, Tail(groups), lock_at)

\* variant: no CPT whitelist test
CptSkipped_never(r, item) == FALSE

\* the CPT whitelist test at the head of _process_rate
CptSkipped(r, item) ==
    r.cpt_whitelist # {} /\ item.billing_code \notin r.cpt_whitelist

\* RateExtractor._process_rate
RateExtractor_process_rate(r, item, lock_at) ==
    LET r0 == [r EXCEPT !.last_item = item, !.last_group_rows = <<>>,
                        !.last_groups_read = 0, !.call_flushes = 0,
                        !.items_handled = @ + 1]
    IN  IF CptSkipped(r0, item) THEN r0
        ELSE ProcessRateGroups(r0, item, item.negotiated_rates, lock_at)

\* RateExtractor.process_file after the item stream: final write, the writer is
\* closed in the finally clause, and an exception out of the write still propagates
RateExtractor_finish(r, lock_at) ==
    LET r0 == [r EXCEPT !.call_flushes = 0]
        r1 == IF r0.rates_batch # <<>>
              THEN RateExtractor_write_batch(r0, lock_at = 1) ELSE r0
    IN  [r1 EXCEPT !.writer = "none"]

CptWhitelists == { {}, {"99213"} }
ProviderGroupFilters == { {}, {1, 2}, {4} }

RE_Init ==
    /\ \E bs \in 1..MaxBatchSize, f \in ProviderGroupFilters, c \in CptWhitelists :
          re = RateExtractor_init(bs, f, c)
    /\ re_pc = "streaming"

\* one iteration of the loop over in_network items in process_file
RE_ProcessItem ==
    /\ re_pc = "streaming"
    /\ re.items_handled < MaxItems
    /\ \E item \in Items, lock_at \in LockChoices :
         LET r == RateExtractor_process_rate(re, item, lock_at)
         IN  /\ re' = (IF r.raised THEN r ELSE [r EXCEPT !.items_processed = @ + 1])
             /\ re_pc' = (IF r.raised THEN "crashed" ELSE "streaming")
    /\ UNCHANGED <<pe_vars, ob_vars, co_vars, mw_vars, rs_vars, pa_vars, wf_vars,
                 ms_vars, sw_vars, od_vars, lk_vars>>

\* the stream ends (or a limit is reached): final write, close, process_file returns
RE_Finish ==
    /\ re_pc = "streaming"
    /\ \E lock_at \in {0, 1} :
         LET r == RateExtractor_finish(re, lock_at)
         IN  /\ re' = r
             /\ re_pc' = (IF r.raised THEN "crashed" ELSE "done")
    /\ UNCHANGED <<pe_vars, ob_vars, co_vars, mw_vars, rs_vars, pa_vars, wf_vars,
                 ms_vars, sw_vars, od_vars, lk_vars>>

\* ijson raises while the next item is decoded (a truncated or malformed
\* source): the exception leaves the loop and process_file
RE_DecodeError ==
    /\ re_pc = "streaming"
    /\ re.items_handled < MaxItems
    /\ re' = [re EXCEPT !.raised = TRUE, !.stream_errors = @ + 1]
    /\ re_pc' = "crashed"
    /\ UNCHANGED <<pe_vars, ob_vars, co_vars, mw_vars, rs_vars, pa_vars, wf_vars,
                 ms_vars, sw_vars, od_vars, lk_vars>>

RE_Next == RE_ProcessItem \/ RE_Finish \/ RE_DecodeError

(***************************************************************************)
(*             RATE EXTRACTOR: CONSOLIDATION OF BACKUP FILES               *)
(* RateExtractor._consolidate_backup_files, statement by statement.  The   *)
(* directory holds the primary output, the backup files matching           *)
(* "<stem>_backup_*.parquet" and the intermediate "<stem>_consolidated"    *)
(* file.  No code of RateExtractor creates a backup file, so the backups   *)
(* are files some other writer left beside the output.                     *)
(***************************************************************************)
MaxBackups == 2     \* backup files beside the primary output

\* a path that holds no file
Absent == [exists |-> FALSE, rows |-> <<>>, complete |-> FALSE]

\* a completely written parquet file
ParquetFile(rows) == [exists |-> TRUE, rows |-> rows, complete |-> TRUE]

\* a file whose writer stopped part-way
PartialFile == [exists |-> TRUE, rows |-> <<>>, complete |-> FALSE]

\* the rows the primary output may hold when process_file reaches the consolidation
PrimaryContents == { <<>>, <<1, 2>> }

\* the rows of the k-th backup file
BackupRows(k) == IF k % 2 = 1 THEN <<10 * k + 1, 10 * k + 2>> ELSE <<10 * k + 1>>

\* the state at the call in process_file: the writer is closed, the directory is as found
consolidate_backup_files_init(platform, primary_exists, primary_rows, nb) ==
    [ platform |-> platform,
      primary |-> IF primary_exists THEN ParquetFile(primary_rows) ELSE Absent,
      consolidated |-> Absent,
      backups |-> [k \in 1..nb |-> ParquetFile(BackupRows(k))],
      \* locals
      backup_files |-> <<>>,
      idx |-> 1,
      main_df |-> <<>>,
      backup_dfs |-> <<>>,
      consolidated_df |-> <<>>,
      \* probes: the primary existed at entry and its rows then, the number of
      \* backups at entry, the backups that could not be read, the I/O failures
      \* met, the move was done
      had_primary |-> primary_exists,
      old_rows |-> IF primary_exists THEN primary_rows ELSE <<>>,
      nb |-> nb,
      unreadable |-> {},
      failures |-> 0,
      moved |-> FALSE ]

\* list(self.output_path.parent.glob(backup_pattern))
GlobBackups(c) ==
    LET RECURSIVE Upto(_)
        Upto(k) == IF k = 0 THEN <<>>
                   ELSE IF c.backups[k].exists THEN Append(Upto(k - 1), k) ELSE Upto(k - 1)
    IN  Upto(c.nb)

\* variant: the main frame is left out of the concatenation
ConcatAll_backups_only(main_df, backup_dfs) ==
    LET RECURSIVE Cat(_)
        Cat(dfs) == IF dfs = <<>> THEN <<>> ELSE Head(dfs) \o Cat(Tail(dfs))
    IN  Cat(backup_dfs)

\* pd.concat([main_df] + backup_dfs, ignore_index=True)
ConcatAll(main_df, backup_dfs) ==
    LET RECURSIVE Cat(_)
        Cat(dfs) == IF dfs = <<>> THEN <<>> ELSE Head(dfs) \o Cat(Tail(dfs))
    IN  Cat(<<main_df>> \o backup_dfs)

\* consolidated_path: "<stem>_consolidated.parquet" beside the primary
ConsolidatedPath(c) == "consolidated"

\* the platforms the extractor runs on (it tests sys.platform == "win32")
Platforms == {"posix", "win32"}

\* shutil.move tries os.rename(src, dst) first.  With both paths in one directory
\* that is an atomic replacement on POSIX; on Windows os.rename raises
\* FileExistsError when dst exists, and the primary always exists here.
RenameReplaces(c) == c.platform = "posix"

\* os.rename(src, "primary") succeeded
MoveOverPrimary(c, src) ==
    IF src = "primary" THEN c
    ELSE [c EXCEPT !.primary = c[src], ![src] = Absent]

CO_Init ==
    /\ \E platform \in Platforms, primary_exists \in BOOLEAN,
          primary_rows \in PrimaryContents, nb \in 0..MaxBackups :
          co = consolidate_backup_files_init(platform, primary_exists, primary_rows, nb)
    /\ co_pc = "entry"

\* the two early returns: no primary output, no backup file
CO_Scan ==
    /\ co_pc = "entry"
    /\ IF ~co.primary.exists
       THEN co' = co /\ co_pc' = "returned"
       ELSE LET found == GlobBackups(co)
            IN  /\ co' = [co EXCEPT !.backup_files = found]
                /\ co_pc' = (IF found = <<>> THEN "returned" ELSE "read_main")
    /\ UNCHANGED <<pe_vars, re_vars, ob_vars, mw_vars, rs_vars, pa_vars, wf_vars,
                 ms_vars, sw_vars, od_vars, lk_vars>>

\* main_df = pd.read_parquet(self.output_path); a failure goes to the outer except
CO_ReadMain ==
    /\ co_pc = "read_main"
    /\ \E ok \in BOOLEAN :
         IF ok
         THEN co' = [co EXCEPT !.main_df = co.primary.rows] /\ co_pc' = "read_backups"
         ELSE co' = [co EXCEPT !.failures = @ + 1] /\ co_pc' = "returned"
    /\ UNCHANGED <<pe_vars, re_vars, ob_vars, mw_vars, rs_vars, pa_vars, wf_vars,
                 ms_vars, sw_vars, od_vars, lk_vars>>

\* one iteration of the loop reading the backups; an unreadable one is only reported
CO_ReadBackup ==
    /\ co_pc = "read_backups"
    /\ co.idx <= Len(co.backup_files)
    /\ LET k == co.backup_files[co.idx]
       IN  \E ok \in BOOLEAN :
             IF ok
             THEN co' = [co EXCEPT !.backup_dfs = Append(@, co.backups[k].rows),
                                   !.idx = @ + 1]
             ELSE co' = [co EXCEPT !.unreadable = @ \cup {k}, !.failures = @ + 1,
                                   !.idx = @ + 1]
    /\ UNCHANGED co_pc
    /\ UNCHANGED <<pe_vars, re_vars, ob_vars, mw_vars, rs_vars, pa_vars, wf_vars,
                 ms_vars, sw_vars, od_vars, lk_vars>>

\* "if backup_dfs:" and the start of consolidated_df.to_parquet(consolidated_path)
CO_WriteBegin ==
    /\ co_pc = "read_backups"
    /\ co.idx > Len(co.backup_files)
    /\ IF co.backup_dfs = <<>>
       THEN co' = co /\ co_pc' = "returned"
       ELSE LET c1 == [co EXCEPT !.consolidated_df = ConcatAll(co.main_df, co.backup_dfs)]
            IN  \E ok \in BOOLEAN :
                  IF ok
                  THEN /\ co' = [c1 EXCEPT ![ConsolidatedPath(co)] = PartialFile]
                       /\ co_pc' = "writing"
                  ELSE /\ co' = [c1 EXCEPT !.failures = @ + 1]
                       /\ co_pc' = "returned"
    /\ UNCHANGED <<pe_vars, re_vars, ob_vars, mw_vars, rs_vars, pa_vars, wf_vars,
                 ms_vars, sw_vars, od_vars, lk_vars>>

\* to_parquet finishes, or fails and leaves what it wrote so far
CO_WriteEnd ==
    /\ co_pc = "writing"
    /\ \E ok \in BOOLEAN :
         IF ok
         THEN /\ co' = [co EXCEPT ![ConsolidatedPath(co)] = ParquetFile(co.consolidated_df)]
              /\ co_pc' = "move"
         ELSE /\ co' = [co EXCEPT !.failures = @ + 1]
              /\ co_pc' = "returned"
    /\ UNCHANGED <<pe_vars, re_vars, ob_vars, mw_vars, rs_vars, pa_vars, wf_vars,
                 ms_vars, sw_vars, od_vars, lk_vars>>

\* shutil.move(str(consolidated_path), str(self.output_path)): the rename, or,
\* when os.rename raised, the start of the fallback copy2(src, dst), which opens
\* the primary for writing and so empties it
CO_Move ==
    /\ co_pc = "move"
    /\ \E ok \in BOOLEAN :
         IF ~ok
         THEN /\ co' = [co EXCEPT !.failures = @ + 1]
              /\ co_pc' = "returned"
         ELSE IF RenameReplaces(co)
         THEN /\ co' = [MoveOverPrimary(co, ConsolidatedPath(co)) EXCEPT
                           !.moved = TRUE, !.idx = 1]
              /\ co_pc' = "cleanup"
         ELSE /\ co' = [co EXCEPT !.primary = PartialFile]
              /\ co_pc' = "copying"
    /\ UNCHANGED <<pe_vars, re_vars, ob_vars, mw_vars, rs_vars, pa_vars, wf_vars,
                 ms_vars, sw_vars, od_vars, lk_vars>>

\* the fallback of shutil.move: the copy over the primary finishes and the source
\* is unlinked, or the copy fails and leaves the primary as far as it got
CO_CopyEnd ==
    /\ co_pc = "copying"
    /\ \E ok \in BOOLEAN :
         IF ok
         THEN /\ co' = [MoveOverPrimary(co, ConsolidatedPath(co)) EXCEPT
                           !.moved = TRUE, !.idx = 1]
              /\ co_pc' = "cleanup"
         ELSE /\ co' = [co EXCEPT !.failures = @ + 1]
              /\ co_pc' = "returned"
    /\ UNCHANGED <<pe_vars, re_vars, ob_vars, mw_vars, rs_vars, pa_vars, wf_vars,
                 ms_vars, sw_vars, od_vars, lk_vars>>

\* one iteration of "for backup_file in backup_files: backup_file.unlink()"
CO_Unlink ==
    /\ co_pc = "cleanup"
    /\ co.idx <= Len(co.backup_files)
    /\ LET k == co.backup_files[co.idx]
       IN  \E ok \in BOOLEAN :
             IF ok
             THEN co' = [co EXCEPT !.backups[k] = Absent, !.idx = @ + 1]
             ELSE co' = [co EXCEPT !.failures = @ + 1, !.idx = @ + 1]
    /\ UNCHANGED co_pc
    /\ UNCHANGED <<pe_vars, re_vars, ob_vars, mw_vars, rs_vars, pa_vars, wf_vars,
                 ms_vars, sw_vars, od_vars, lk_vars>>

\* the clean-up loop is over
CO_Return ==
    /\ co_pc = "cleanup"
    /\ co.idx > Len(co.backup_files)
    /\ co_pc' = "returned"
    /\ UNCHANGED co
    /\ UNCHANGED <<pe_vars, re_vars, ob_vars, mw_vars, rs_vars, pa_vars, wf_vars,
                 ms_vars, sw_vars, od_vars, lk_vars>>

CO_Next ==
    \/ CO_Scan \/ CO_ReadMain \/ CO_ReadBackup \/ CO_WriteBegin
    \/ CO_WriteEnd \/ CO_Move \/ CO_CopyEnd \/ CO_Unlink \/ CO_Return

(***************************************************************************)
(*                      BATCH ORCHESTRATOR                                 *)
(***************************************************************************)
WorkerChoices == {1, 2}

\* What running one task's extraction subprocess comes to:
\*   "ok"         returncode 0
\*   "exit_403"   non-zero exit, stderr carries a 403 / access denied diagnostic
\*   "exit_other" non-zero exit, any other stderr
\*   "exception"  subprocess.run raises (the process could not be launched or run)
\*   "malformed"  the task dictionary lacks a required key (KeyError on task[...])
\* A subprocess may also never exit: see OB_TaskHangs.
Outcomes == {"ok", "exit_403", "exit_other", "exception", "malformed"}

NoResult ==
    [task |-> 0, success |-> FALSE, error |-> "none", has_duration |-> FALSE,
     log_file |-> FALSE, raised |-> FALSE]

\* the 'error' text process_one_extraction stores for a non-zero exit: stderr is
\* captured only when it is a pipe (sequential mode); in parallel mode it goes to
\* the log file and subprocess_result.stderr is None
ExitErrorText(workers, outcome) ==
    IF workers > 1 THEN "Unknown error"
    ELSE IF outcome = "exit_403" THEN "stderr: 403 Forbidden" ELSE "stderr: other"

\* variant: no except clause around subprocess.run
CatchesException_never(outcome) == FALSE

\* the clause "except Exception as e" of process_one_extraction
CatchesException(outcome) == outcome = "exception"

\* process_one_extraction(task, ..., workers)
process_one_extraction(task, workers, outcome) ==
    IF outcome = "malformed"
    THEN [NoResult EXCEPT !.task = task, !.raised = TRUE]
    ELSE IF outcome = "ok"
    THEN [task |-> task, success |-> TRUE, error |-> "none", has_duration |-> TRUE,
          log_file |-> workers > 1, raised |-> FALSE]
    ELSE IF outcome \in {"exit_403", "exit_other"}
    THEN [task |-> task, success |-> FALSE, error |-> ExitErrorText(workers, outcome),
          has_duration |-> TRUE, log_file |-> workers > 1, raised |-> FALSE]
    ELSE IF CatchesException(outcome)
    THEN [task |-> task, success |-> FALSE, error |-> "exception text",
          has_duration |-> TRUE, log_file |-> workers > 1, raised |-> FALSE]
    ELSE [NoResult EXCEPT !.task = task, !.raised = TRUE]

\* 'status': 'success' if result['success'] else 'failed'
EntryStatus(result) == IF result.success THEN "success" ELSE "failed"

\* the manifest entry execute_batch builds from a result
ManifestEntry(result) ==
    [source |-> result.task, status |-> EntryStatus(result), error |-> result.error]

NoSummary == [successful |-> -1, failed |-> -1, total |-> -1]

NoFile == [exists |-> FALSE, extractions |-> <<>>, summary |-> NoSummary]

\* variant: the manifest is not written
DumpManifest_stale(o) == o.manifest_file

\* json.dump(manifest, f): the file holds the manifest as it is now
DumpManifest(o) ==
    [exists |-> TRUE, extractions |-> o.extractions, summary |-> o.summary]

\* execute_batch up to the mode switch; tasks are numbered 1..n in submission order
execute_batch_init(n, workers) ==
    [ workers |-> workers,
      n |-> n,
      state |-> [t \in 1..n |-> "pending"],   \* pending | running | hung | done | cancelled
      outcome |-> [t \in 1..n |-> "none"],    \* probe: what the subprocess came to
      finish_order |-> <<>>,                    \* probe: tasks in completion order
      results |-> [t \in 1..n |-> NoResult],
      successful |-> 0,
      failed |-> 0,
      i |-> 1,                                  \* the sequential loop's task number
      extractions |-> <<>>,                     \* manifest['extractions']
      summary |-> NoSummary,                    \* manifest['summary']
      manifest_file |-> NoFile ]

\* the counters and the manifest after one result is aggregated
Aggregate_failures_uncounted(o, result) ==
    [o EXCEPT !.successful = IF result.success THEN @ + 1 ELSE @,
              !.extractions = Append(@, ManifestEntry(result))]

Aggregate(o, result) ==
    [o EXCEPT !.successful = IF result.success THEN @ + 1 ELSE @,
              !.failed = IF result.success THEN @ ELSE @ + 1,
              !.extractions = Append(@, ManifestEntry(result))]

\* variant: results taken as they complete (as_completed instead of map)
CollectOrder_as_completed(o) == o.finish_order

\* the order in which the parallel branch walks the results of executor.map
CollectOrder(o) == [k \in 1..o.n |-> k]

RECURSIVE AggregateAll(_, _)
AggregateAll(o, order) ==
    IF order = <<>> THEN o
    ELSE AggregateAll(Aggregate(o, o.results[Head(order)]), Tail(order))

Running(o) == {t \in 1..o.n : o.state[t] \in {"running", "hung"}}

\* variant: the pool starts a task whenever one is waiting
PoolHasFreeWorker_always(o) == TRUE

\* ProcessPoolExecutor(max_workers=workers): a worker process is idle
PoolHasFreeWorker(o) == Cardinality(Running(o)) < o.workers

\* variant: the results are taken as soon as one worker has returned
AllWorkersReturned_any(o) == \E t \in 1..o.n : o.state[t] = "done"

\* list(executor.map(...)) returns: every task's result is there and none raised
AllWorkersReturned(o) == \A t \in 1..o.n : o.state[t] = "done" /\ ~o.results[t].raised

OB_Init ==
    /\ \E n \in 0..MaxTasks, w \in WorkerChoices : ob = execute_batch_init(n, w)
    /\ ob_pc = "loop"

\* sequential mode: the loop reaches task i and blocks in subprocess.run
OB_SeqStart ==
    /\ ob_pc = "loop" /\ ob.workers = 1
    /\ ob.i <= ob.n /\ ob.state[ob.i] = "pending"
    /\ ob' = [ob EXCEPT !.state[ob.i] = "running"]
    /\ UNCHANGED ob_pc
    /\ UNCHANGED <<pe_vars, re_vars, co_vars, mw_vars, rs_vars, pa_vars, wf_vars,
                 ms_vars, sw_vars, od_vars, lk_vars>>

\* sequential mode: the subprocess of task i is over; the rest of the iteration
OB_SeqFinish ==
    /\ ob_pc = "loop" /\ ob.workers = 1
    /\ ob.i <= ob.n /\ ob.state[ob.i] = "running"
    /\ \E outcome \in Outcomes :
         LET result == process_one_extraction(ob.i, ob.workers, outcome)
             o1 == [ob EXCEPT !.state[ob.i] = "done", !.outcome[ob.i] = outcome,
                              !.results[ob.i] = result,
                              !.finish_order = Append(@, ob.i)]
             o2 == Aggregate(o1, result)
         IN  IF result.raised
             THEN /\ ob' = o1
                  /\ ob_pc' = "raised"
             ELSE /\ ob' = [o2 EXCEPT !.manifest_file = DumpManifest(o2), !.i = @ + 1]
                  /\ UNCHANGED ob_pc
    /\ UNCHANGED <<pe_vars, re_vars, co_vars, mw_vars, rs_vars, pa_vars, wf_vars,
                 ms_vars, sw_vars, od_vars, lk_vars>>

\* a subprocess that never exits: subprocess.run is called without a timeout
OB_TaskHangs ==
    /\ ob_pc \in {"loop", "shutdown"}
    /\ \E t \in 1..ob.n :
         /\ ob.state[t] = "running"
         /\ ob' = [ob EXCEPT !.state[t] = "hung", !.outcome[t] = "hang"]
    /\ UNCHANGED ob_pc
    /\ UNCHANGED <<pe_vars, re_vars, co_vars, mw_vars, rs_vars, pa_vars, wf_vars,
                 ms_vars, sw_vars, od_vars, lk_vars>>

\* sequential mode: the loop is over
OB_SeqLoopEnd ==
    /\ ob_pc = "loop" /\ ob.workers = 1 /\ ob.i > ob.n
    /\ ob_pc' = "summary"
    /\ UNCHANGED ob
    /\ UNCHANGED <<pe_vars, re_vars, co_vars, mw_vars, rs_vars, pa_vars, wf_vars,
                 ms_vars, sw_vars, od_vars, lk_vars>>

\* parallel mode: a free worker of the pool takes the next task in submission order
OB_ParStart ==
    /\ ob_pc = "loop" /\ ob.workers > 1
    /\ PoolHasFreeWorker(ob)
    /\ \E t \in 1..ob.n :
         /\ ob.state[t] = "pending"
         /\ \A u \in 1..(t - 1) : ob.state[u] # "pending"
         /\ ob' = [ob EXCEPT !.state[t] = "running"]
    /\ UNCHANGED ob_pc
    /\ UNCHANGED <<pe_vars, re_vars, co_vars, mw_vars, rs_vars, pa_vars, wf_vars,
                 ms_vars, sw_vars, od_vars, lk_vars>>

\* parallel mode: a worker's process_one_extraction returns (or raises)
OB_ParFinish ==
    /\ ob_pc \in {"loop", "shutdown"} /\ ob.workers > 1
    /\ \E t \in 1..ob.n, outcome \in Outcomes :
         /\ ob.state[t] = "running"
         /\ ob' = [ob EXCEPT !.state[t] = "done", !.outcome[t] = outcome,
                             !.results[t] = process_one_extraction(t, ob.workers, outcome),
                             !.finish_order = Append(@, t)]
    /\ UNCHANGED ob_pc
    /\ UNCHANGED <<pe_vars, re_vars, co_vars, mw_vars, rs_vars, pa_vars, wf_vars,
                 ms_vars, sw_vars, od_vars, lk_vars>>

\* parallel mode: list(executor.map(...)) has every result; entries are built in
\* the order of the results and the manifest is written once
OB_ParCollect ==
    /\ ob_pc = "loop" /\ ob.workers > 1
    /\ AllWorkersReturned(ob)
    /\ LET o1 == AggregateAll(ob, CollectOrder(ob))
       IN  ob' = [o1 EXCEPT !.manifest_file = DumpManifest(o1)]
    /\ ob_pc' = "summary"
    /\ UNCHANGED <<pe_vars, re_vars, co_vars, mw_vars, rs_vars, pa_vars, wf_vars,
                 ms_vars, sw_vars, od_vars, lk_vars>>

\* parallel mode: walking the results reaches one whose worker raised; the
\* exception leaves list(...), the futures not yet started are cancelled and the
\* with-block waits for the running workers
OB_ParResultRaises ==
    /\ ob_pc = "loop" /\ ob.workers > 1
    /\ \E t \in 1..ob.n :
         /\ ob.state[t] = "done" /\ ob.results[t].raised
         /\ \A u \in 1..(t - 1) : ob.state[u] = "done" /\ ~ob.results[u].raised
    /\ ob' = [ob EXCEPT !.state = [t \in 1..ob.n |->
                          IF ob.state[t] = "pending" THEN "cancelled" ELSE ob.state[t]]]
    /\ ob_pc' = "shutdown"
    /\ UNCHANGED <<pe_vars, re_vars, co_vars, mw_vars, rs_vars, pa_vars, wf_vars,
                 ms_vars, sw_vars, od_vars, lk_vars>>

\* parallel mode: the pool has shut down, the exception leaves execute_batch
OB_ParShutdown ==
    /\ ob_pc = "shutdown"
    /\ Running(ob) = {}
    /\ ob_pc' = "raised"
    /\ UNCHANGED ob
    /\ UNCHANGED <<pe_vars, re_vars, co_vars, mw_vars, rs_vars, pa_vars, wf_vars,
                 ms_vars, sw_vars, od_vars, lk_vars>>

\* both modes: the summary is added, the manifest is written, execute_batch returns
OB_WriteSummary ==
    /\ ob_pc = "summary"
    /\ LET o1 == [ob EXCEPT !.summary = [successful |-> ob.successful,
                                         failed |-> ob.failed, total |-> ob.n]]
       IN  ob' = [o1 EXCEPT !.manifest_file = DumpManifest(o1)]
    /\ ob_pc' = "returned"
    /\ UNCHANGED <<pe_vars, re_vars, co_vars, mw_vars, rs_vars, pa_vars, wf_vars,
                 ms_vars, sw_vars, od_vars, lk_vars>>

OB_Next ==
    \/ OB_SeqStart \/ OB_SeqFinish \/ OB_SeqLoopEnd
    \/ OB_ParStart \/ OB_ParFinish \/ OB_ParCollect
    \/ OB_ParResultRaises \/ OB_ParShutdown
    \/ OB_TaskHangs \/ OB_WriteSummary

(***************************************************************************)
(*              BATCH ORCHESTRATOR: THE TASK-SOURCE PARSERS                *)
(* parse_csv_input and parse_url_list_input build one task per distinct    *)
(* URL; the tasks are then run on a pool of two workers, each task opening *)
(* its log file.  A URL is ".../<date>_<net>_in-network-rates_<part>_of_5  *)
(* .json.gz<query>"; a line that carries no URL has an empty scheme.       *)
(***************************************************************************)
MaxLines == 3       \* lines (rows) of a task source

Urls ==
    [scheme : {"https"}, net : {"020_02E0", "030_04B0"}, part : {1, 2},
     query : {"", "?sig=1"}]

\* an empty line, a comment, a row with an empty file_url
BlankLine == [scheme |-> "", net |-> "", part |-> 0, query |-> ""]

Lines == Urls \cup {BlankLine}

\* filename = url.split('/')[-1].split('?')[0]: the directory and the query go
FileNameOf(url) == [net |-> url.net, part |-> url.part]

\* extract_network_id: of the file name, the date prefix and everything from
\* "_in-network-rates" on are dropped; "\d{3}_\w{4}" is what is left
extract_network_id(url) == FileNameOf(url).net

\* prefix = f"{default_prefix}_{network_id}"
OutputPrefix(default_prefix, url) == <<default_prefix, extract_network_id(url)>>

\* the task dictionary the parsers build for a URL
TaskOf(default_prefix, url) ==
    [url |-> url, filename |-> FileNameOf(url),
     network_id |-> extract_network_id(url),
     output_prefix |-> OutputPrefix(default_prefix, url)]

\* log_file_path = log_dir / f'{network_id}_extraction.log'
LogPath(task) == <<task.network_id, "_extraction.log">>

\* the parser before the first line
parse_input_init ==
    [ tasks |-> <<>>,
      seen_urls |-> {},
      lines_read |-> 0,
      \* the batch run: each task "pending" | "running" | "done", and the log
      \* file each started task opened
      state |-> <<>>,
      log_of |-> <<>> ]

PA_Init ==
    /\ pa = parse_input_init
    /\ pa_pc = "parsing"

\* one line of the URL list or one row of the CSV: skipped if it has no URL or
\* a URL already seen, else a task is built
PA_ParseLine ==
    /\ pa_pc = "parsing"
    /\ pa.lines_read < MaxLines
    /\ \E line \in Lines :
         LET p1 == [pa EXCEPT !.lines_read = @ + 1]
         IN  IF line.scheme = "" \/ line \in pa.seen_urls
             THEN pa' = p1
             ELSE pa' = [p1 EXCEPT !.seen_urls = @ \cup {line},
                                   !.tasks = Append(@, TaskOf("extracted", line))]
    /\ UNCHANGED pa_pc
    /\ UNCHANGED <<pe_vars, re_vars, ob_vars, co_vars, mw_vars, rs_vars, wf_vars,
                 ms_vars, sw_vars, od_vars, lk_vars>>

\* the source is exhausted; a source without a URL raises ValueError, else the
\* tasks go to execute_batch with two workers
PA_EndOfInput ==
    /\ pa_pc = "parsing"
    /\ IF pa.tasks = <<>>
       THEN pa' = pa /\ pa_pc' = "raised"
       ELSE /\ pa' = [pa EXCEPT !.state = [t \in 1..Len(pa.tasks) |-> "pending"],
                                !.log_of = [t \in 1..Len(pa.tasks) |-> <<>>]]
            /\ pa_pc' = "running"
    /\ UNCHANGED <<pe_vars, re_vars, ob_vars, co_vars, mw_vars, rs_vars, wf_vars,
                 ms_vars, sw_vars, od_vars, lk_vars>>

\* a free worker takes the next task and opens its log file for writing
PA_StartTask ==
    /\ pa_pc = "running"
    /\ Cardinality({t \in 1..Len(pa.tasks) : pa.state[t] = "running"}) < 2
    /\ \E t \in 1..Len(pa.tasks) :
         /\ pa.state[t] = "pending"
         /\ \A u \in 1..(t - 1) : pa.state[u] # "pending"
         /\ pa' = [pa EXCEPT !.state[t] = "running",
                             !.log_of[t] = LogPath(pa.tasks[t])]
    /\ UNCHANGED pa_pc
    /\ UNCHANGED <<pe_vars, re_vars, ob_vars, co_vars, mw_vars, rs_vars, wf_vars,
                 ms_vars, sw_vars, od_vars, lk_vars>>

\* a worker's subprocess is over and the log file is closed
PA_FinishTask ==
    /\ pa_pc = "running"
    /\ \E t \in 1..Len(pa.tasks) :
         /\ pa.state[t] = "running"
         /\ pa' = [pa EXCEPT !.state[t] = "done"]
    /\ UNCHANGED pa_pc
    /\ UNCHANGED <<pe_vars, re_vars, ob_vars, co_vars, mw_vars, rs_vars, wf_vars,
                 ms_vars, sw_vars, od_vars, lk_vars>>

PA_Next == PA_ParseLine \/ PA_EndOfInput \/ PA_StartTask \/ PA_FinishTask

(***************************************************************************)
(*                 BATCH ORCHESTRATOR: THE MANIFEST FILE                   *)
(* "with open(manifest_file, 'w') as f: json.dump(manifest, f, indent=2)"  *)
(* as the file system sees it: open(..., 'w') truncates the file in place, *)
(* json.dump writes the document chunk by chunk, close flushes the rest.   *)
(* Another process may read the file between any two of these steps.       *)
(***************************************************************************)
EntryStatuses == {"success", "failed"}

\* the chunks json.dump writes for a manifest, in order
Serialise(extractions, has_summary) ==
    <<"{">> \o extractions \o (IF has_summary THEN <<"summary">> ELSE <<>>) \o <<"}">>

\* json.load accepts the text: the document is there from its first to its last chunk
Parses(text) == Len(text) >= 2 /\ text[1] = "{" /\ text[Len(text)] = "}"

\* the manifest in memory before the first task, and no file on disk
manifest_write_init ==
    [ extractions |-> <<>>,        \* manifest['extractions'], one status per entry
      has_summary |-> FALSE,       \* manifest['summary'] is set
      exists |-> FALSE,            \* the manifest file exists
      disk |-> <<>>,               \* the chunks the file holds
      pending |-> <<>>,            \* the chunks of the current dump not yet on disk
      \* probes: a reader has read the file; what its last read returned; the
      \* number of dumps started
      has_read |-> FALSE,
      seen |-> <<>>,
      dumps |-> 0 ]

\* open(manifest_file, 'w'): the file is created or truncated to nothing
OpenForWrite(m) ==
    [m EXCEPT !.exists = TRUE, !.disk = <<>>,
              !.pending = Serialise(m.extractions, m.has_summary),
              !.dumps = @ + 1]

MW_Init ==
    /\ mw = manifest_write_init
    /\ mw_pc = "idle"

\* a task's entry is appended and the dump of the manifest begins
MW_EntryDump ==
    /\ mw_pc \in {"idle", "closed"}
    /\ ~mw.has_summary
    /\ Len(mw.extractions) < MaxTasks
    /\ \E status \in EntryStatuses :
         mw' = OpenForWrite([mw EXCEPT !.extractions = Append(@, status)])
    /\ mw_pc' = "open"
    /\ UNCHANGED <<pe_vars, re_vars, ob_vars, co_vars, rs_vars, pa_vars, wf_vars,
                 ms_vars, sw_vars, od_vars, lk_vars>>

\* the summary is added and the final dump begins
MW_SummaryDump ==
    /\ mw_pc \in {"idle", "closed"}
    /\ ~mw.has_summary
    /\ mw' = OpenForWrite([mw EXCEPT !.has_summary = TRUE])
    /\ mw_pc' = "open"
    /\ UNCHANGED <<pe_vars, re_vars, ob_vars, co_vars, rs_vars, pa_vars, wf_vars,
                 ms_vars, sw_vars, od_vars, lk_vars>>

\* the stream's buffer is flushed: some more chunks of the document reach the file
MW_Flush ==
    /\ mw_pc = "open"
    /\ \E k \in 1..Len(mw.pending) :
         mw' = [mw EXCEPT !.disk = @ \o SubSeq(mw.pending, 1, k),
                          !.pending = SubSeq(@, k + 1, Len(@))]
    /\ UNCHANGED mw_pc
    /\ UNCHANGED <<pe_vars, re_vars, ob_vars, co_vars, rs_vars, pa_vars, wf_vars,
                 ms_vars, sw_vars, od_vars, lk_vars>>

\* the with-block ends: what is left is flushed and the file is closed
MW_Close ==
    /\ mw_pc = "open"
    /\ mw' = [mw EXCEPT !.disk = @ \o mw.pending, !.pending = <<>>]
    /\ mw_pc' = "closed"
    /\ UNCHANGED <<pe_vars, re_vars, ob_vars, co_vars, rs_vars, pa_vars, wf_vars,
                 ms_vars, sw_vars, od_vars, lk_vars>>

\* another process reads the manifest file
MW_Read ==
    /\ mw.exists
    /\ mw' = [mw EXCEPT !.has_read = TRUE, !.seen = mw.disk]
    /\ UNCHANGED mw_pc
    /\ UNCHANGED <<pe_vars, re_vars, ob_vars, co_vars, rs_vars, pa_vars, wf_vars,
                 ms_vars, sw_vars, od_vars, lk_vars>>

MW_Next == MW_EntryDump \/ MW_SummaryDump \/ MW_Flush \/ MW_Close \/ MW_Read

(***************************************************************************)
(*                        THE EXTRACTION WORKFLOW                          *)
(* run_extraction_workflow: download, provider pass, NPPES cleaning, load  *)
(* of the provider groups, rate pass, merge.  An exception at any step     *)
(* leaves the workflow.                                                    *)
(***************************************************************************)
MaxFlowItems == 1    \* in_network items the rate pass of a workflow handles

Npis == {"n1", "n2"}

\* the provider rows a source may give rise to
WorkflowRows == [provider_group_id : GroupIds, npi : Npis]

\* the set of provider_group_id values of a set of rows
GroupsOf(rows) == {row.provider_group_id : row \in rows}

\* load_provider_groups_from_parquet: the ids of the file, or, when the file
\* cannot be read, the empty set (the exception is printed and swallowed)
load_provider_groups_from_parquet(file, readable) ==
    IF file.exists /\ readable THEN GroupsOf(file.rows) ELSE {}

\* clean_providers_by_nppes: the rows whose NPI the registry reports as NPI-2
CleanedRows(rows, npi2_npis) == {row \in rows : row.npi \in npi2_npis}

NoRowsFile == [exists |-> FALSE, rows |-> {}]

run_extraction_workflow_init ==
    [ temp_index |-> FALSE,          \* the downloaded source exists
      provider_file |-> NoRowsFile,  \* providers_<slug>.parquet
      cleaned_file |-> NoRowsFile,   \* providers_<slug>_cleaned.parquet
      provider_groups |-> {},
      rate_extractor |-> RateExtractor_init(1, {}, {}),
      \* probes: the provider pass has returned; the rate pass has begun; the
      \* provider file as it was when the rate pass began
      provider_done |-> FALSE,
      rate_started |-> FALSE,
      provider_file_then |-> NoRowsFile ]

\* the finally clause of the workflow: the downloaded source is removed
LeaveWorkflow(w) == [w EXCEPT !.temp_index = FALSE]

Flow_Init ==
    /\ wf = run_extraction_workflow_init
    /\ wf_pc = "download"

\* Step 1: download_to_temp(mrf_url)
Flow_Download ==
    /\ wf_pc = "download"
    /\ \E ok \in BOOLEAN :
         IF ok
         THEN wf' = [wf EXCEPT !.temp_index = TRUE] /\ wf_pc' = "providers"
         ELSE wf' = wf /\ wf_pc' = "raised"
    /\ UNCHANGED <<pe_vars, re_vars, ob_vars, co_vars, mw_vars, rs_vars, pa_vars,
                 ms_vars, sw_vars, od_vars, lk_vars>>

\* Step 2, inside provider_extractor.process_file: a batch reaches the output file
Flow_ProviderWrite ==
    /\ wf_pc = "providers"
    /\ \E row \in WorkflowRows \ wf.provider_file.rows :
         wf' = [wf EXCEPT !.provider_file =
                             [exists |-> TRUE, rows |-> wf.provider_file.rows \cup {row}]]
    /\ UNCHANGED wf_pc
    /\ UNCHANGED <<pe_vars, re_vars, ob_vars, co_vars, mw_vars, rs_vars, pa_vars,
                 ms_vars, sw_vars, od_vars, lk_vars>>

\* Step 2 ends: process_file returns after its final write, or raises
Flow_ProviderReturn ==
    /\ wf_pc = "providers"
    /\ \E ok \in BOOLEAN :
         IF ok
         THEN wf' = [wf EXCEPT !.provider_done = TRUE] /\ wf_pc' = "clean"
         ELSE wf' = LeaveWorkflow(wf) /\ wf_pc' = "raised"
    /\ UNCHANGED <<pe_vars, re_vars, ob_vars, co_vars, mw_vars, rs_vars, pa_vars,
                 ms_vars, sw_vars, od_vars, lk_vars>>

\* Step 3: clean_providers_by_nppes reads the provider file (raising if there is
\* none), asks the registry about each NPI and writes the cleaned file
Flow_Clean ==
    /\ wf_pc = "clean"
    /\ IF ~wf.provider_file.exists
       THEN wf' = LeaveWorkflow(wf) /\ wf_pc' = "raised"
       ELSE \E npi2_npis \in SUBSET Npis :
              /\ wf' = [wf EXCEPT !.cleaned_file =
                           [exists |-> TRUE,
                            rows |-> CleanedRows(wf.provider_file.rows, npi2_npis)]]
              /\ wf_pc' = "load"
    /\ UNCHANGED <<pe_vars, re_vars, ob_vars, co_vars, mw_vars, rs_vars, pa_vars,
                 ms_vars, sw_vars, od_vars, lk_vars>>

\* Step 4, first half: provider_groups = load_provider_groups_from_parquet(...)
Flow_LoadGroups ==
    /\ wf_pc = "load"
    /\ \E readable \in BOOLEAN :
         wf' = [wf EXCEPT !.provider_groups =
                             load_provider_groups_from_parquet(wf.cleaned_file, readable)]
    /\ wf_pc' = "rates"
    /\ UNCHANGED <<pe_vars, re_vars, ob_vars, co_vars, mw_vars, rs_vars, pa_vars,
                 ms_vars, sw_vars, od_vars, lk_vars>>

\* Step 4, second half: the RateExtractor is built with the provider groups as
\* its filter and its process_file begins
Flow_RateStart ==
    /\ wf_pc = "rates"
    /\ wf' = [wf EXCEPT !.rate_extractor = RateExtractor_init(1, wf.provider_groups, {}),
                        !.rate_started = TRUE,
                        !.provider_file_then = wf.provider_file]
    /\ wf_pc' = "rating"
    /\ UNCHANGED <<pe_vars, re_vars, ob_vars, co_vars, mw_vars, rs_vars, pa_vars,
                 ms_vars, sw_vars, od_vars, lk_vars>>

\* inside rate_extractor.process_file: one in_network item is handled
Flow_RateItem ==
    /\ wf_pc = "rating"
    /\ wf.rate_extractor.items_handled < MaxFlowItems
    /\ \E rates \in RateLists :
         LET r == RateExtractor_process_rate(wf.rate_extractor,
                     [billing_code |-> "99213", negotiated_rates |-> rates], 0)
         IN  IF r.raised
             THEN /\ wf' = LeaveWorkflow([wf EXCEPT !.rate_extractor = r])
                  /\ wf_pc' = "raised"
             ELSE /\ wf' = [wf EXCEPT !.rate_extractor = r]
                  /\ wf_pc' = "rating"
    /\ UNCHANGED <<pe_vars, re_vars, ob_vars, co_vars, mw_vars, rs_vars, pa_vars,
                   ms_vars, sw_vars, od_vars, lk_vars>>

\* the rate pass returns or raises
Flow_RateReturn ==
    /\ wf_pc = "rating"
    /\ \E ok \in BOOLEAN :
         IF ok
         THEN wf' = wf /\ wf_pc' = "merge"
         ELSE wf' = LeaveWorkflow(wf) /\ wf_pc' = "raised"
    /\ UNCHANGED <<pe_vars, re_vars, ob_vars, co_vars, mw_vars, rs_vars, pa_vars,
                 ms_vars, sw_vars, od_vars, lk_vars>>

\* Step 5: merge, then the finally clause; the workflow returns
Flow_Merge ==
    /\ wf_pc = "merge"
    /\ wf' = LeaveWorkflow(wf)
    /\ wf_pc' = "returned"
    /\ UNCHANGED <<pe_vars, re_vars, ob_vars, co_vars, mw_vars, rs_vars, pa_vars,
                 ms_vars, sw_vars, od_vars, lk_vars>>

Flow_Next ==
    \/ Flow_Download \/ Flow_ProviderWrite \/ Flow_ProviderReturn \/ Flow_Clean
    \/ Flow_LoadGroups \/ Flow_RateStart \/ Flow_RateItem \/ Flow_RateReturn
    \/ Flow_Merge

(***************************************************************************)
(*                  THE METADATA SCAN OF process_file                      *)
(* "for prefix, event, value in ijson.parse(gz): if prefix in [the four    *)
(* names]: file_metadata[prefix] = value; elif prefix == <array>: break".  *)
(* A document is the order of its top-level keys; each large array gives   *)
(* two events, its start and its content.                                  *)
(***************************************************************************)
MetadataKeys ==
    {"reporting_entity_name", "reporting_entity_type", "last_updated_on", "version"}

LargeArrays == {"provider_references", "in_network"}

\* a top-level scalar that is none of the four, e.g. plan_name
OtherKey == "plan_name"

TopLevelKeys == MetadataKeys \cup LargeArrays \cup {OtherKey}

\* every order of the keys in S
RECURSIVE Orders(_)
Orders(S) ==
    IF S = {} THEN {<<>>}
    ELSE UNION {{<<key>> \o order : order \in Orders(S \ {key})} : key \in S}

\* the events ijson.parse gives for a document with this key order: the prefix
\* of a scalar is its key, an array starts with prefix <key> and goes on with
\* prefixes <key>.item...
RECURSIVE Events(_)
Events(order) ==
    IF order = <<>> THEN <<>>
    ELSE (IF Head(order) \in LargeArrays
          THEN <<Head(order), "array_content">>
          ELSE <<Head(order)>>) \o Events(Tail(order))

\* the array each extractor breaks at: the provider extractor line 244, the
\* rate extractor line 252
BreakKey(extractor) ==
    IF extractor = "provider" THEN "provider_references" ELSE "in_network"

metadata_scan_init(extractor, events) ==
    [ extractor |-> extractor,
      events |-> events,
      file_metadata |-> {},      \* the keys of file_metadata
      read |-> 0 ]               \* events taken from the parser so far

\* the key sets of the documents read: with both arrays, or without
\* provider_references (every provider group referenced by location elsewhere)
DocumentKeys == {TopLevelKeys, TopLevelKeys \ {"provider_references"}}

MS_Init ==
    /\ \E extractor \in {"provider", "rate"}, keys \in DocumentKeys :
         \E order \in Orders(keys) :
           ms = metadata_scan_init(extractor, Events(order))
    /\ ms_pc = "scanning"

\* one iteration of the for loop: the next event is taken and tested
MS_ReadEvent ==
    /\ ms_pc = "scanning"
    /\ ms.read < Len(ms.events)
    /\ LET prefix == ms.events[ms.read + 1]
           m1 == [ms EXCEPT !.read = @ + 1]
       IN  IF prefix \in MetadataKeys
           THEN ms' = [m1 EXCEPT !.file_metadata = @ \cup {prefix}] /\ ms_pc' = "scanning"
           ELSE IF prefix = BreakKey(ms.extractor)
           THEN ms' = m1 /\ ms_pc' = "stopped"
           ELSE ms' = m1 /\ ms_pc' = "scanning"
    /\ UNCHANGED <<pe_vars, re_vars, ob_vars, co_vars, mw_vars, rs_vars, pa_vars,
                   wf_vars, sw_vars, od_vars, lk_vars>>

\* the parser is exhausted: the for loop ends
MS_EndOfDocument ==
    /\ ms_pc = "scanning"
    /\ ms.read = Len(ms.events)
    /\ ms' = ms
    /\ ms_pc' = "stopped"
    /\ UNCHANGED <<pe_vars, re_vars, ob_vars, co_vars, mw_vars, rs_vars, pa_vars,
                   wf_vars, sw_vars, od_vars, lk_vars>>

MS_Next == MS_ReadEvent \/ MS_EndOfDocument

(***************************************************************************)
(*              THE RATE WRITER'S SCHEMA (RateExtractor._write_batch)      *)
(* Every rate row has the same keys, so the tables of a job differ only in *)
(* the type pyarrow infers for a column: "null" when every value of the    *)
(* batch is None (a JSON null in the source), "string" otherwise.          *)
(***************************************************************************)
MaxFlushes == 4      \* flushes of one job

ColumnTypes == {"null", "string"}

\* the schema pa.Table.from_pandas infers for a batch, for two of its columns
TableSchemas == [description : ColumnTypes, expiration_date : ColumnTypes]

NoSchema == [description |-> "unset", expiration_date |-> "unset"]

\* table.cast(self._schema): a null column is cast to string; a string column
\* cannot be cast to null and the cast raises
CastRaises(table_schema, schema) ==
    \/ table_schema.description = "string" /\ schema.description = "null"
    \/ table_schema.expiration_date = "string" /\ schema.expiration_date = "null"

write_batch_schema_init ==
    [ schema |-> NoSchema,     \* self._schema
      batches |-> <<>>,        \* probe: the schema of each table handed to a flush
      written |-> <<>> ]       \* the schema of each table written to the file

SW_Init ==
    /\ sw = write_batch_schema_init
    /\ sw_pc = "writing"

\* one call of _write_batch with a non-empty batch
SW_WriteBatch ==
    /\ sw_pc = "writing"
    /\ Len(sw.batches) < MaxFlushes
    /\ \E table_schema \in TableSchemas :
         LET s1 == [sw EXCEPT !.batches = Append(@, table_schema)]
             s2 == IF sw.schema = NoSchema
                   THEN [s1 EXCEPT !.schema = table_schema] ELSE s1
         IN  IF table_schema # s2.schema /\ CastRaises(table_schema, s2.schema)
             THEN sw' = s2 /\ sw_pc' = "failed"
             ELSE sw' = [s2 EXCEPT !.written = Append(@, s2.schema)] /\ sw_pc' = "writing"
    /\ UNCHANGED <<pe_vars, re_vars, ob_vars, co_vars, mw_vars, rs_vars, pa_vars,
                   wf_vars, ms_vars, od_vars, lk_vars>>

\* the writer is closed at the end of process_file
SW_Close ==
    /\ sw_pc = "writing"
    /\ sw' = sw
    /\ sw_pc' = "closed"
    /\ UNCHANGED <<pe_vars, re_vars, ob_vars, co_vars, mw_vars, rs_vars, pa_vars,
                   wf_vars, ms_vars, od_vars, lk_vars>>

SW_Next == SW_WriteBatch \/ SW_Close

(***************************************************************************)
(*        process_one_extraction: THE DISCOVERY OF THE OUTPUT FILES        *)
(* A file name is the word before the first "_" (its kind) and the         *)
(* "_"-separated words after it; the subprocess is run_extraction.         *)
(***************************************************************************)
\* output prefixes of tasks; the second is what two tasks of one network share
\* with each other, the third begins with the first
OutputPrefixes == { <<"ex", "020">>, <<"ex", "030">>, <<"ex", "020", "02E0">> }

\* get_output_slug() of the run of a task, and of an earlier run
SlugOf(task) == IF task = 1 THEN "slug1" ELSE "slug2"
OldSlug == "slug0"

\* providers_{prefix}_{slug}.parquet, written by ProviderExtractor.process_file
ProvidersFile(prefix, slug, owner) ==
    [kind |-> "providers", words |-> prefix \o <<slug>>, owner |-> owner,
     derived |-> FALSE]

\* ..._cleaned.parquet beside it, written by clean_providers_by_nppes
CleanedFile(prefix, slug, owner) ==
    [kind |-> "providers", words |-> prefix \o <<slug, "cleaned">>, owner |-> owner,
     derived |-> TRUE]

\* rates_{slug}.parquet: the workflow builds its RateExtractor without output_prefix
RatesFile(prefix, slug, owner) ==
    [kind |-> "rates", words |-> <<slug>>, owner |-> owner, derived |-> FALSE]

\* what a run of the workflow that returns leaves in the output directory
WorkflowFiles(prefix, slug, owner) ==
    { ProvidersFile(prefix, slug, owner), CleanedFile(prefix, slug, owner),
      RatesFile(prefix, slug, owner) }

\* output_dir.glob(f"{kind}_{prefix}_*.parquet")
Glob(dir, kind, prefix) ==
    {f \in dir : /\ f.kind = kind
                 /\ Len(f.words) > Len(prefix)
                 /\ SubSeq(f.words, 1, Len(prefix)) = prefix}

NoFileName == [kind |-> "none", words |-> <<>>, owner |-> 0, derived |-> FALSE]

\* owner 0 is an earlier run of the orchestrator into the same directory
discover_output_init(prefixes, old_files) ==
    [ prefixes |-> prefixes,
      dir |-> old_files,
      task |-> 1,
      returncode |-> 0,
      results |-> <<>> ]       \* per task: success, output_files

OD_Init ==
    /\ \E p1 \in OutputPrefixes, p2 \in OutputPrefixes, old \in BOOLEAN :
         od = discover_output_init(<<p1, p2>>,
                 IF old THEN WorkflowFiles(p1, OldSlug, 0) ELSE {})
    /\ od_pc = "running"

\* subprocess.run returns: the workflow ran to its end (returncode 0) or failed
\* after the provider pass
OD_SubprocessExits ==
    /\ od_pc = "running"
    /\ od.task <= Len(od.prefixes)
    /\ \E returncode \in {0, 1} :
         LET prefix == od.prefixes[od.task]
             slug == SlugOf(od.task)
         IN  od' = [od EXCEPT
                      !.returncode = returncode,
                      !.dir = @ \cup (IF returncode = 0
                                      THEN WorkflowFiles(prefix, slug, od.task)
                                      ELSE {ProvidersFile(prefix, slug, od.task)})]
    /\ od_pc' = "exited"
    /\ UNCHANGED <<pe_vars, re_vars, ob_vars, co_vars, mw_vars, rs_vars, pa_vars,
                   wf_vars, ms_vars, sw_vars, lk_vars>>

\* lines 517-534: on returncode 0 the first file of each glob is recorded, in
\* whatever order the directory lists them
OD_Record ==
    /\ od_pc = "exited"
    /\ LET prefix == od.prefixes[od.task]
           provider_files == Glob(od.dir, "providers", prefix)
           rates_files == Glob(od.dir, "rates", prefix)
       IN  \E providers \in (IF provider_files = {} THEN {NoFileName} ELSE provider_files),
              rates \in (IF rates_files = {} THEN {NoFileName} ELSE rates_files) :
             od' = [od EXCEPT
                      !.results = Append(@,
                          IF od.returncode = 0
                          THEN [success |-> TRUE, providers |-> providers, rates |-> rates]
                          ELSE [success |-> FALSE, providers |-> NoFileName,
                                rates |-> NoFileName]),
                      !.task = @ + 1]
    /\ od_pc' = "running"
    /\ UNCHANGED <<pe_vars, re_vars, ob_vars, co_vars, mw_vars, rs_vars, pa_vars,
                   wf_vars, ms_vars, sw_vars, lk_vars>>

OD_Next == OD_SubprocessExits \/ OD_Record

(***************************************************************************)
(*        clean_providers_by_nppes: THE NPI CLASSIFICATION LOOKUPS         *)
(* One get_enumeration_type call per unique NPI, on a thread pool.         *)
(***************************************************************************)
MaxTries == 4        \* requests one lookup may make in the model

\* "if tries < 3" in the except clause
RetryLimit == 3

\* what a request comes to: HTTP 429; a RequestException or JSONDecodeError; a
\* payload without results; a result with its enumeration_type
Responses == {"429", "error", "no_result", "NPI-1", "NPI-2"}

get_enumeration_type_init ==
    [ tries |-> [npi \in Npis |-> 0],
      state |-> [npi \in Npis |-> "calling"],     \* "calling" | "returned"
      value |-> [npi \in Npis |-> "None"],
      npi2_npis |-> {} ]

LK_Init ==
    /\ lk = get_enumeration_type_init
    /\ lk_pc = "looking_up"

\* one iteration of "while True" in the lookup of one NPI
LK_Request ==
    /\ lk_pc = "looking_up"
    /\ \E npi \in Npis, response \in Responses :
         /\ lk.state[npi] = "calling"
         /\ lk.tries[npi] < MaxTries
         /\ LET tries == lk.tries[npi] + 1
                l1 == [lk EXCEPT !.tries[npi] = tries]
            IN  lk' = IF response = "429" THEN l1
                      ELSE IF response = "error"
                      THEN (IF tries < RetryLimit THEN l1
                            ELSE [l1 EXCEPT !.state[npi] = "returned"])
                      ELSE IF response = "no_result"
                      THEN [l1 EXCEPT !.state[npi] = "returned"]
                      ELSE [l1 EXCEPT !.state[npi] = "returned", !.value[npi] = response]
    /\ UNCHANGED lk_pc
    /\ UNCHANGED <<pe_vars, re_vars, ob_vars, co_vars, mw_vars, rs_vars, pa_vars,
                   wf_vars, ms_vars, sw_vars, od_vars>>

\* every future has completed: the NPI-2 set is built
LK_Collect ==
    /\ lk_pc = "looking_up"
    /\ \A npi \in Npis : lk.state[npi] = "returned"
    /\ lk' = [lk EXCEPT !.npi2_npis = {npi \in Npis : lk.value[npi] = "NPI-2"}]
    /\ lk_pc' = "collected"
    /\ UNCHANGED <<pe_vars, re_vars, ob_vars, co_vars, mw_vars, rs_vars, pa_vars,
                   wf_vars, ms_vars, sw_vars, od_vars>>

LK_Next == LK_Request \/ LK_Collect

(***************************************************************************)
(*                          SPECIFICATIONS                                 *)
(***************************************************************************)
PE_Idle == pe = ProviderExtractor_init(1, {}, {}) /\ pe_pc = "idle"
RE_Idle == re = RateExtractor_init(1, {}, {}) /\ re_pc = "idle"
OB_Idle == ob = execute_batch_init(0, 1) /\ ob_pc = "idle"
CO_Idle == co = consolidate_backup_files_init("posix", FALSE, <<>>, 0) /\ co_pc = "idle"
MW_Idle == mw = manifest_write_init /\ mw_pc = "off"
RS_Idle == rs = iter_provider_groups_from_url_init /\ rs_pc = "idle"
PA_Idle == pa = parse_input_init /\ pa_pc = "idle"
Flow_Idle == wf = run_extraction_workflow_init /\ wf_pc = "idle"
MS_Idle == ms = metadata_scan_init("rate", <<>>) /\ ms_pc = "idle"
SW_Idle == sw = write_batch_schema_init /\ sw_pc = "idle"
OD_Idle == od = discover_output_init(<<>>, {}) /\ od_pc = "idle"
LK_Idle == lk = get_enumeration_type_init /\ lk_pc = "idle"

\* the subsystems added last, all idle
RestIdle == MS_Idle /\ SW_Idle /\ OD_Idle /\ LK_Idle

\* one provider extraction job
InitProvider ==
    /\ PE_Init
    /\ RE_Idle /\ OB_Idle /\ CO_Idle /\ MW_Idle /\ RS_Idle /\ PA_Idle /\ Flow_Idle /\ RestIdle
SpecProvider == InitProvider /\ [][PE_Next]_vars

\* the provider extractor, each call of _process_provider_reference examined
InitReference ==
    /\ PR_Init
    /\ RE_Idle /\ OB_Idle /\ CO_Idle /\ MW_Idle /\ RS_Idle /\ PA_Idle /\ Flow_Idle /\ RestIdle
SpecReference == InitReference /\ [][PR_Next]_vars

\* the generator that reads the provider groups of one remote location
InitResolve ==
    /\ RS_Init
    /\ PE_Idle /\ RE_Idle /\ OB_Idle /\ CO_Idle /\ MW_Idle /\ PA_Idle /\ Flow_Idle /\ RestIdle
SpecResolve == InitResolve /\ [][RS_Next]_vars

\* one rate extraction job
InitRate ==
    /\ RE_Init
    /\ PE_Idle /\ OB_Idle /\ CO_Idle /\ MW_Idle /\ RS_Idle /\ PA_Idle /\ Flow_Idle /\ RestIdle
SpecRate == InitRate /\ [][RE_Next]_vars

\* one batch run of the orchestrator
InitBatch ==
    /\ OB_Init
    /\ PE_Idle /\ RE_Idle /\ CO_Idle /\ MW_Idle /\ RS_Idle /\ PA_Idle /\ Flow_Idle /\ RestIdle
SpecBatch == InitBatch /\ [][OB_Next]_vars

\* the parsing of a URL list into tasks and the opening of their log files
InitParse ==
    /\ PA_Init
    /\ PE_Idle /\ RE_Idle /\ OB_Idle /\ CO_Idle /\ MW_Idle /\ RS_Idle /\ Flow_Idle /\ RestIdle
SpecParse == InitParse /\ [][PA_Next]_vars

\* one extraction job of either extractor (the two batch writers)
InitExtract ==
    /\ (PE_Init /\ RE_Idle) \/ (RE_Init /\ PE_Idle)
    /\ OB_Idle /\ CO_Idle /\ MW_Idle /\ RS_Idle /\ PA_Idle /\ Flow_Idle /\ RestIdle
NextExtract == PE_Next \/ RE_Next
SpecExtract == InitExtract /\ [][NextExtract]_vars

\* the consolidation of backup files alone
InitConsolidate ==
    /\ CO_Init
    /\ PE_Idle /\ RE_Idle /\ OB_Idle /\ MW_Idle /\ RS_Idle /\ PA_Idle /\ Flow_Idle /\ RestIdle
SpecConsolidate == InitConsolidate /\ [][CO_Next]_vars

\* the rewriting of the manifest file alone, with a concurrent reader
InitManifestWrite ==
    /\ MW_Init
    /\ PE_Idle /\ RE_Idle /\ OB_Idle /\ CO_Idle /\ RS_Idle /\ PA_Idle /\ Flow_Idle /\ RestIdle
SpecManifestWrite == InitManifestWrite /\ [][MW_Next]_vars

\* one run of the extraction workflow for one source
InitWorkflow ==
    /\ Flow_Init
    /\ PE_Idle /\ RE_Idle /\ OB_Idle /\ CO_Idle /\ MW_Idle /\ RS_Idle /\ PA_Idle /\ RestIdle
SpecWorkflow == InitWorkflow /\ [][Flow_Next]_vars

\* the metadata scan alone
InitScan ==
    /\ MS_Init /\ SW_Idle /\ OD_Idle /\ LK_Idle
    /\ PE_Idle /\ RE_Idle /\ OB_Idle /\ CO_Idle /\ MW_Idle /\ RS_Idle /\ PA_Idle /\ Flow_Idle
SpecScan == InitScan /\ [][MS_Next]_vars

\* the flushes of one rate writer, by the schema of their tables
InitSchema ==
    /\ SW_Init /\ MS_Idle /\ OD_Idle /\ LK_Idle
    /\ PE_Idle /\ RE_Idle /\ OB_Idle /\ CO_Idle /\ MW_Idle /\ RS_Idle /\ PA_Idle /\ Flow_Idle
SpecSchema == InitSchema /\ [][SW_Next]_vars

\* two tasks run one after the other into one output directory
InitDiscover ==
    /\ OD_Init /\ MS_Idle /\ SW_Idle /\ LK_Idle
    /\ PE_Idle /\ RE_Idle /\ OB_Idle /\ CO_Idle /\ MW_Idle /\ RS_Idle /\ PA_Idle /\ Flow_Idle
SpecDiscover == InitDiscover /\ [][OD_Next]_vars

\* the NPI lookups of one cleaning
InitLookup ==
    /\ LK_Init /\ MS_Idle /\ SW_Idle /\ OD_Idle
    /\ PE_Idle /\ RE_Idle /\ OB_Idle /\ CO_Idle /\ MW_Idle /\ RS_Idle /\ PA_Idle /\ Flow_Idle
SpecLookup == InitLookup /\ [][LK_Next]_vars

(***************************************************************************)
(*                              CLAIMS                                     *)
(***************************************************************************)
PassesGroupWhitelist(g) ==
    pe.provider_group_whitelist = {} \/ g \in pe.provider_group_whitelist

\* C1: whatever references one ProviderExtractor has handled, each
\* provider_group_id had its groups iterated at most once; exactly once if it
\* occurred and passes the provider-group whitelist; never if it did not occur.
C1_ResolvedOncePerId ==
    pe_pc # "idle" =>
      \A g \in GroupIds :
        /\ pe.iter_calls[g] <= 1
        /\ (g \in pe.ids_occurred /\ PassesGroupWhitelist(g)) => pe.iter_calls[g] = 1
        /\ pe.iter_calls[g] = 1 => (g \in pe.ids_occurred /\ PassesGroupWhitelist(g))

\* C1 witness: the same id came three times, its first (remote) resolution
\* failed, and it was still resolved once only.
C1_Witness ==
    /\ pe.refs_handled = 3 /\ pe.ids_occurred = {1}
    /\ pe.ref_files_errors = 1 /\ pe.iter_calls[1] = 1

\* C2: within one provider extraction job every remote location is downloaded
\* at most once, and exactly once if any resolution went to it, however many
\* reference ids point at it and whether or not the first fetch failed.
C2_UrlFetchedOnce ==
    pe_pc # "idle" =>
      \A u \in Locations :
        /\ pe.downloads[u] <= 1
        /\ pe.url_ids[u] # {} => pe.downloads[u] = 1
        /\ pe.downloads[u] = 1 => u \in pe.seen_ref_urls

\* C2 witness: two different ids pointed at u1, the first fetch failed, and u1
\* was downloaded once.
C2_Witness ==
    /\ pe.url_ids["u1"] = {1, 2} /\ pe.downloads["u1"] = 1
    /\ pe.ref_files_errors = 1 /\ pe.ref_files_fetched = 0

ReadableRows(f) == IF f.file_exists THEN Len(f.file_rows) ELSE 0

C4_EmptyIntersectionNoRows ==
    (re_pc # "idle" /\ re.provider_group_filter # {}) =>
      /\ \A k \in 1..Len(re.last_group_rows) :
           Range(re.last_item.negotiated_rates[k].provider_references)
               \cap re.provider_group_filter = {}
             => re.last_group_rows[k] = 0
      /\ \A row \in Range(re.rates_batch) \cup Range(re.file_rows) :
           row.provider_reference_id \in re.provider_group_filter

\* C4 witness: filter {1,2}; the item's first rate group (providers [3]) gave no
\* row, its second (providers [2,3]) gave one.
C4_Witness ==
    /\ re.provider_group_filter = {1, 2}
    /\ re.last_item.negotiated_rates = <<RGb, RGc>>
    /\ re.last_group_rows = <<0, 1>>

\* C5: with a CPT whitelist configured, an item whose billing_code is not in it
\* (also an item without billing_code) emits no row and none of its rate groups
\* is even read; no row anywhere carries a code outside the whitelist.
C5_CptFilterFirst ==
    (re_pc # "idle" /\ re.cpt_whitelist # {}) =>
      /\ (re.items_handled > 0 /\ re.last_item.billing_code \notin re.cpt_whitelist)
           => (re.last_group_rows = <<>> /\ re.last_groups_read = 0)
      /\ \A row \in Range(re.rates_batch) \cup Range(re.file_rows) :
           row.billing_code \in re.cpt_whitelist

\* C5 witness: whitelist {"99213"}, the item handled last has code "99214" and a
\* rate group that would otherwise emit rows, and an earlier item did emit rows.
C5_Witness ==
    /\ re.cpt_whitelist = {"99213"} /\ re.provider_group_filter = {}
    /\ re.last_item = [billing_code |-> "99214", negotiated_rates |-> <<RGa>>]
    /\ re.items_handled = 2 /\ re.rates_generated = 4

\* C6 (as claimed): after the batch, there is one manifest entry per task and
\* the entry of every task whose extraction failed with a 403 diagnostic has
\* status failed_expired.
C6_ExpiredRecordedDistinctly ==
    ob_pc = "returned" =>
      /\ Len(ob.manifest_file.extractions) = ob.n
      /\ \A k \in 1..Len(ob.manifest_file.extractions) :
           ob.outcome[ob.manifest_file.extractions[k].source] = "exit_403"
             => ob.manifest_file.extractions[k].status = "failed_expired"

ListedFailures == {"exit_403", "exit_other", "exception"}

\* C7: a task that fails by a non-zero exit or by an exception out of
\* subprocess.run never raises out of process_one_extraction: its failure is
\* its result; it cancels no other task; in sequential mode the loop has moved
\* on past it; and when the batch returns every task has been executed.
C7_FailureNeverStopsBatch ==
    ob_pc # "idle" =>
      /\ \A t \in 1..ob.n :
           (ob.state[t] = "done" /\ ob.outcome[t] \in ListedFailures) =>
              /\ ~ob.results[t].raised
              /\ ob.results[t].task = t /\ ~ob.results[t].success
              /\ ob.results[t].error # "none"
              /\ ob.workers = 1 => ob.i > t
      /\ (ob_pc \in {"shutdown", "raised"} \/ \E t \in 1..ob.n : ob.state[t] = "cancelled")
           => \E t \in 1..ob.n : ob.outcome[t] = "malformed"
      /\ ob_pc = "returned" =>
           \A t \in 1..ob.n : ob.state[t] = "done" /\ ob.results[t].task = t

\* C7 witness: the first task raised in subprocess.run, the second exited
\* non-zero, the third succeeded, and the batch returned.
C7_Witness ==
    /\ ob_pc = "returned" /\ ob.n >= 3
    /\ ob.outcome[1] = "exception" /\ ob.outcome[2] = "exit_other"
    /\ ob.outcome[3] = "ok" /\ ob.successful = 1

\* C8: after execute_batch returns, in either mode, the manifest (in memory
\* and on disk) has one entry per submitted task, the k-th entry being the
\* k-th task's, whatever the completion order.
C8_ManifestInSubmissionOrder ==
    ob_pc = "returned" =>
      /\ Len(ob.manifest_file.extractions) = ob.n
      /\ \A k \in 1..ob.n :
           /\ ob.manifest_file.extractions[k].source = k
           /\ ob.manifest_file.extractions[k] = ManifestEntry(ob.results[k])
      /\ ob.extractions = ob.manifest_file.extractions

\* C8 witness: parallel mode, task 2 completed before task 1.
C8_Witness ==
    /\ ob_pc = "returned" /\ ob.workers = 2 /\ ob.n = 3
    /\ ob.finish_order = <<2, 1, 3>>

\* C9 (as claimed): a batch of well-formed tasks is never stuck before
\* execute_batch has returned with the manifest and its summary written.
C9_BatchAlwaysCompletes ==
    (ob_pc # "idle" /\ \A t \in 1..ob.n : ob.outcome[t] # "malformed") =>
      \/ ob_pc = "returned" /\ ob.manifest_file.exists
                            /\ ob.manifest_file.summary # NoSummary
      \/ ob_pc # "returned" /\ ENABLED OB_Next

\* C10 (as claimed): a batch write that found the destination locked ends in a
\* backup file; the job has not failed and no appended row is lost.
C10_LockedWriteFallsBack ==
    (re_pc # "idle" /\ re.lock_hits > 0) =>
      /\ re_pc # "crashed" /\ ~re.raised
      /\ re.backup_files # {}

\* C11 (as claimed): whatever fails during the consolidation, a backup file that
\* is no longer in the directory has all its rows in the primary output file.
C11_BackupDeletedOnlyIfMerged ==
    co_pc # "idle" =>
      \A k \in 1..co.nb :
        ~co.backups[k].exists =>
           /\ co.primary.exists /\ co.primary.complete
           /\ Range(BackupRows(k)) \subseteq Range(co.primary.rows)

\* C12 (as claimed): at every step of the consolidation the primary path holds
\* a complete file whose rows are either the rows it had at entry or the merged
\* rows, the latter only after the move; and the move starts only when the
\* merged rows have been written completely to the separate consolidated file.
C12_PrimaryReplacedByRename ==
    (co_pc # "idle" /\ co.had_primary) =>
      /\ co.primary.exists /\ co.primary.complete
      /\ \/ ~co.moved /\ co.primary.rows = co.old_rows
         \/ co.moved /\ co.primary.rows = co.consolidated_df
      /\ co_pc = "move" =>
           /\ co.consolidated = ParquetFile(co.consolidated_df)
           /\ co.consolidated_df = ConcatAll(co.old_rows, co.backup_dfs)

\* the rows of the backup files 1..k together
RECURSIVE BackupRowCount(_)
BackupRowCount(k) == IF k = 0 THEN 0 ELSE Len(BackupRows(k)) + BackupRowCount(k - 1)

\* C13: when backup files were beside the output and the consolidation went
\* through without a failure, the directory holds the primary output only (no
\* backup file, no consolidated file) and the primary's row count is its rows
\* at entry plus the rows of all the backups.
C13_ConsolidationLeavesOneFile ==
    (co_pc = "returned" /\ co.nb >= 1 /\ co.moved /\ co.failures = 0) =>
      /\ co.primary.exists /\ co.primary.complete
      /\ ~co.consolidated.exists
      /\ \A k \in 1..co.nb : ~co.backups[k].exists
      /\ Len(co.primary.rows) = Len(co.old_rows) + BackupRowCount(co.nb)

\* C13 witness: two backups merged into a primary that held rows, no failure.
C13_Witness ==
    /\ co_pc = "returned" /\ co.nb = 2 /\ co.moved /\ co.failures = 0
    /\ co.old_rows # <<>> /\ Len(co.primary.rows) > Len(co.old_rows)

\* the task states of the specification; 'success' is the code's name for succeeded
TerminalStatuses == {"success", "failed", "failed_expired", "timed_out"}

\* what holds of the tasks of a batch in every state
C14_Recorded ==
    ob_pc # "idle" =>
      /\ \A t \in 1..ob.n :
           /\ Cardinality({k \in 1..Len(ob.finish_order) : ob.finish_order[k] = t}) <= 1
           /\ Cardinality({k \in 1..Len(ob.extractions) : ob.extractions[k].source = t}) <= 1
           /\ (t \in Range(ob.finish_order)) = (ob.state[t] = "done")
      /\ \A k \in 1..Len(ob.extractions) :
           LET t == ob.extractions[k].source
           IN  /\ ob.state[t] = "done"
               /\ ob.extractions[k].status \in TerminalStatuses
               /\ ob.extractions[k] = ManifestEntry(ob.results[t])
      /\ ob_pc = "returned" =>
           \A t \in 1..ob.n :
             /\ ob.state[t] = "done"
             /\ \E k \in 1..Len(ob.extractions) : ob.extractions[k].source = t

\* what holds of every step of a batch
C14_Step ==
    /\ ob'.n = ob.n
    /\ \A t \in 1..ob.n :
         /\ ob.state[t] = "pending" => ob'.state[t] \in {"pending", "running", "cancelled"}
         /\ ob.state[t] \in {"running", "hung"} => ob'.state[t] \in {"running", "hung", "done"}
         /\ ob.state[t] = "cancelled" => ob'.state[t] = "cancelled"
         /\ ob.state[t] = "done" =>
              /\ ob'.state[t] = "done"
              /\ ob'.results[t] = ob.results[t]
              /\ ob'.outcome[t] = ob.outcome[t]
    /\ Len(ob'.extractions) >= Len(ob.extractions)
    /\ \A k \in 1..Len(ob.extractions) : ob'.extractions[k] = ob.extractions[k]

\* a batch that can take no further step has run every task to one recorded outcome
C14_Terminated ==
    (ob_pc # "idle" /\ ~ENABLED OB_Next) =>
      \A t \in 1..ob.n :
        /\ ob.state[t] = "done"
        /\ Cardinality({k \in 1..Len(ob.extractions) : ob.extractions[k].source = t}) = 1

\* C14 (as claimed): a task goes from pending to running and from running to
\* exactly one recorded terminal state, never back; it is executed exactly once
\* per batch, so a batch that can go no further has every task done and
\* recorded once; an outcome, once recorded, is never changed.
C14_OneTerminalStatePerTask ==
    []C14_Recorded /\ [][C14_Step]_vars /\ []C14_Terminated

\* C15 (as claimed): a task whose subprocess outlives the wall-clock budget does
\* not hold the batch: the batch can still step or has returned, and when it
\* has returned the task's entry says timed_out and every sibling has run.
C15_TimeoutAbortsOnlyThatTask ==
    ob_pc # "idle" =>
      \A t \in 1..ob.n :
        ob.outcome[t] = "hang" =>
          /\ ob_pc = "returned" \/ ENABLED OB_Next
          /\ ob_pc = "returned" =>
               /\ \E k \in 1..Len(ob.extractions) :
                    /\ ob.extractions[k].source = t
                    /\ ob.extractions[k].status = "timed_out"
               /\ \A u \in 1..ob.n : u # t => ob.state[u] = "done"

\* C16 (as claimed): a task that lacks a required key never makes execute_batch
\* raise and never leaves a sibling unexecuted; when the batch has returned its
\* entry says failed.
C16_MalformedFailsOnlyThatTask ==
    (ob_pc # "idle" /\ \E t \in 1..ob.n : ob.outcome[t] = "malformed") =>
      /\ ob_pc \notin {"shutdown", "raised"}
      /\ \A u \in 1..ob.n : ob.state[u] # "cancelled"
      /\ ob_pc = "returned" =>
           \A t \in 1..ob.n :
             ob.outcome[t] = "malformed" =>
               \E k \in 1..Len(ob.extractions) :
                 /\ ob.extractions[k].source = t
                 /\ ob.extractions[k].status = "failed"

\* C17 (as claimed): whatever a reader of the manifest file reads, at any moment
\* of a batch run, is a complete document.
C17_ReaderSeesCompleteManifest ==
    (mw_pc # "off" /\ mw.has_read) => Parses(mw.seen)

\* C18: in sequential mode, whenever the loop is between or inside iterations
\* and k tasks have finished, the manifest file holds exactly the entries of
\* tasks 1..k in submission order (and does not exist yet while k = 0).
C18_SequentialManifestIncremental ==
    (ob_pc = "loop" /\ ob.workers = 1) =>
      LET k == Cardinality({t \in 1..ob.n : ob.state[t] = "done"})
      IN  /\ k = ob.i - 1
          /\ \A t \in 1..ob.n : (ob.state[t] = "done") = (t <= k)
          /\ ob.manifest_file.exists = (k >= 1)
          /\ Len(ob.manifest_file.extractions) = k
          /\ \A j \in 1..k :
               /\ ob.manifest_file.extractions[j].source = j
               /\ ob.manifest_file.extractions[j] = ManifestEntry(ob.results[j])

\* C18 witness: two of four tasks have finished, one failed and one succeeded,
\* the third is running and the file holds the two entries.
C18_Witness ==
    /\ ob_pc = "loop" /\ ob.workers = 1 /\ ob.n = 4 /\ ob.state[3] = "running"
    /\ Len(ob.manifest_file.extractions) = 2
    /\ ob.manifest_file.extractions[1].status = "failed"
    /\ ob.manifest_file.extractions[2].status = "success"

\* in parallel mode the manifest file exists only when no task is pending or running
C19_WrittenAfterWorkers ==
    (ob_pc # "idle" /\ ob.workers > 1 /\ ob.manifest_file.exists) =>
      /\ Running(ob) = {}
      /\ \A t \in 1..ob.n : ob.state[t] = "done"
      /\ ob_pc \in {"summary", "returned"}

\* in parallel mode a step that changes the manifest file is a step of the
\* coordinating process taken when every worker has returned
C19_WriteStep ==
    (ob.workers > 1 /\ ob'.manifest_file # ob.manifest_file) =>
      /\ ob_pc \in {"loop", "summary"} /\ ob_pc' \in {"summary", "returned"}
      /\ \A t \in 1..ob.n : ob.state[t] = "done" /\ ob'.state[t] = "done"
      /\ ob'.results = ob.results

\* C19: in parallel mode the manifest is written by the coordinating process
\* only, and only after every worker has returned: no write while a task is
\* pending or running, and no step of a worker changes the file.
C19_ParallelManifestAfterAllWorkers == []C19_WrittenAfterWorkers /\ [][C19_WriteStep]_vars

\* C19 witness: three tasks ran on two workers, finished out of order, and the
\* manifest has been written once, before the summary.
C19_Witness ==
    /\ ob_pc = "summary" /\ ob.workers = 2 /\ ob.n = 3
    /\ ob.finish_order = <<2, 1, 3>>
    /\ ob.manifest_file.exists /\ ob.manifest_file.summary = NoSummary

\* C20: never more tasks running than workers; tasks are started in input
\* order; with one worker a task starts only when all before it have finished,
\* so they finish in input order; and the results are collected in input order
\* whatever the completion order.
C20_BoundedWorkersInputOrder ==
    ob_pc # "idle" =>
      /\ Cardinality(Running(ob)) <= ob.workers
      /\ \A t \in 1..ob.n :
           ob.state[t] \notin {"pending", "cancelled"} =>
             \A u \in 1..(t - 1) : ob.state[u] \notin {"pending", "cancelled"}
      /\ ob.workers = 1 =>
           /\ \A t \in 1..ob.n :
                ob.state[t] \in {"running", "hung", "done"} =>
                  \A u \in 1..(t - 1) : ob.state[u] = "done"
           /\ \A k \in 1..Len(ob.finish_order) : ob.finish_order[k] = k
      /\ \A k \in 1..Len(ob.extractions) : ob.extractions[k].source = k

\* C20 witness: two workers, both busy, while a task has finished out of input
\* order and another is still waiting for a worker.
C20_Witness ==
    /\ ob_pc = "loop" /\ ob.workers = 2 /\ ob.n = 4
    /\ ob.state = <<"running", "done", "running", "pending">>

\* ---- the last call of _process_provider_reference, from its probes ----
\* the call got past the group whitelist and the duplicate-id test
LastResolved ==
    /\ pe_pc # "idle" /\ pe.refs_handled > 0
    /\ PassesGroupWhitelist(pe.last_ref.provider_group_id)
    /\ pe.last_ref.provider_group_id \notin pe.before.seen_group_ids

\* ... and its reference has no inline groups and has a location
LastRemote ==
    /\ LastResolved
    /\ pe.last_ref.provider_groups = <<>>
    /\ pe.last_ref.location # NoLocation

\* the rows the call appended, and the downloads it made
LastRows ==
    SubSeq(AllProviderRows(pe), pe.before.rows + 1, Len(AllProviderRows(pe)))

LastDownloads == TotalDownloads(pe) - pe.before.downloads

\* the group passes the TIN filter of the extractor as the code applies it
PassesTinFilter(g) ==
    pe.tin_whitelist = {} \/ TinValue(g) = "" \/ TinValue(g) \in pe.tin_whitelist

\* one row per npi for each group of 'groups' that passes the TIN filter
RECURSIVE ExpectedRows(_, _)
ExpectedRows(id, groups) ==
    IF groups = <<>> THEN <<>>
    ELSE (IF PassesTinFilter(Head(groups))
          THEN [k \in 1..Len(Head(groups).npi) |->
                  [provider_group_id |-> id,
                   npi |-> Head(groups).npi[k],
                   tin_type |-> Head(groups).tin.type,
                   tin_value |-> TinValue(Head(groups)),
                   file_meta |-> pe.file_meta]]
          ELSE <<>>) \o ExpectedRows(id, Tail(groups))

\* C24 (as claimed): when the fetch or the decoding of a remote location fails,
\* the error counter goes up by one and the reference contributes no row.
C24_FailedFetchYieldsNothing ==
    (/\ LastRemote
     /\ pe.last_ref.location \notin pe.before.seen_ref_urls
     /\ pe.last_outcome.kind \in {"download_error", "decode_error"}) =>
       /\ pe.ref_files_errors = pe.before.ref_files_errors + 1
       /\ LastRows = <<>>

\* C25 (as claimed): a reference without inline groups whose location holds a
\* readable document yields each group of that document, whatever references
\* came before it.
C25_RemoteReferenceYieldsDocument ==
    (LastRemote /\ pe.last_outcome.kind = "ok") =>
       LastRows = ExpectedRows(pe.last_ref.provider_group_id,
                               RemoteDoc(pe.last_ref.location))

\* C27: a resolved reference with inline groups yields exactly those and makes
\* no download, location or not; one without inline groups and with a location
\* goes to the location (one download, unless the location was fetched before);
\* one with neither yields no row, makes no download and counts no error.
C27_SourcePrecedence ==
    LastResolved =>
      /\ pe.last_ref.provider_groups # <<>> =>
           /\ LastDownloads = 0
           /\ LastRows = ExpectedRows(pe.last_ref.provider_group_id,
                                      pe.last_ref.provider_groups)
      /\ LastRemote =>
           LastDownloads =
             (IF pe.last_ref.location \in pe.before.seen_ref_urls THEN 0 ELSE 1)
      /\ (pe.last_ref.provider_groups = <<>> /\ pe.last_ref.location = NoLocation) =>
           /\ LastDownloads = 0 /\ LastRows = <<>>
           /\ pe.ref_files_errors = pe.before.ref_files_errors

\* C27 witness: a reference with inline groups and a location was resolved from
\* its inline groups.
C27_Witness ==
    /\ LastResolved /\ pe.last_ref.provider_groups = <<G2, G1>>
    /\ pe.last_ref.location = "u2" /\ pe.tin_whitelist = {}
    /\ Len(LastRows) = 3 /\ TotalDownloads(pe) = 0

\* C28 (as claimed): with a TIN whitelist configured, no provider row carries a
\* tin_value outside the whitelist.
C28_NoRowOutsideTinWhitelist ==
    (pe_pc # "idle" /\ pe.tin_whitelist # {}) =>
      \A k \in 1..Len(AllProviderRows(pe)) :
        AllProviderRows(pe)[k].tin_value \in pe.tin_whitelist

\* the groups the iterator yielded in the last call
LastYielded ==
    IF pe.last_ref.provider_groups # <<>> THEN pe.last_ref.provider_groups
    ELSE IF pe.last_ref.location = NoLocation
              \/ pe.last_ref.location \in pe.before.seen_ref_urls
              \/ pe.last_outcome.kind = "download_error"
    THEN <<>>
    ELSE SubSeq(RemoteDoc(pe.last_ref.location), 1, pe.last_outcome.upto)

\* C29: the rows a call appends are, for each group it resolved that passes the
\* TIN filter and in order, one row per entry of the group's npi list (none for
\* an empty list), carrying the reference's id, the group's TIN type and value
\* and the file metadata; a call that resolves nothing appends nothing.
C29_OneRowPerNpi ==
    (pe_pc # "idle" /\ pe.refs_handled > 0) =>
      LastRows = (IF LastResolved
                  THEN ExpectedRows(pe.last_ref.provider_group_id, LastYielded)
                  ELSE <<>>)

\* C29 witness: a remote document of two groups, one filtered out by its TIN,
\* gave one row; and a group with an empty npi list was resolved earlier.
C29_Witness ==
    /\ LastRemote /\ pe.last_ref.location = "u1" /\ pe.last_outcome.kind = "ok"
    /\ pe.tin_whitelist = {"t1"} /\ Len(LastRows) = 1 /\ LastRows[1].tin_value = "t1"
    /\ pe.before.rows = 1 /\ AllProviderRows(pe)[1].npi = "n3"

\* C21 (as claimed): the tasks a parser built for a batch have pairwise distinct
\* output prefixes, so no two of them name the same output file.
C21_OutputPrefixUniquePerTask ==
    pa_pc = "running" =>
      \A t, u \in 1..Len(pa.tasks) :
        t # u => pa.tasks[t].output_prefix # pa.tasks[u].output_prefix

\* C22 (as claimed): no two tasks of one parallel batch run open the same log
\* file path, whether or not they run at the same time.
C22_LogFilePerTask ==
    pa_pc = "running" =>
      \A t, u \in 1..Len(pa.tasks) :
        (t # u /\ pa.state[t] # "pending" /\ pa.state[u] # "pending")
          => pa.log_of[t] # pa.log_of[u]

\* the rate extractor of the workflow keeps a rate group's provider id
C23_Admits(id) ==
    EligibleProviders(wf.rate_extractor, [provider_references |-> <<id>>]) = <<id>>

\* C23 (as claimed): when the rate pass begins the provider pass has returned
\* and its output file is what it is for good, and the rate pass keeps exactly
\* the provider groups of the provider pass's (cleaned) output.
C23_ProviderPassFeedsRatePass ==
    wf.rate_started =>
      /\ wf.provider_done
      /\ wf.provider_file.exists
      /\ wf.provider_file = wf.provider_file_then
      /\ \A id \in GroupIds :
           C23_Admits(id) <=> id \in GroupsOf(wf.cleaned_file.rows)

C30_Eligible(rate_group) ==
    IF re.provider_group_filter # {}
    THEN Range(rate_group.provider_references) \cap re.provider_group_filter
    ELSE Range(rate_group.provider_references)

C30_AllRows == re.file_rows \o re.rates_batch

RECURSIVE C30_Sum(_)
C30_Sum(counts) == IF counts = <<>> THEN 0 ELSE Head(counts) + C30_Sum(Tail(counts))

\* the rows the k-th rate group of the last item emitted
C30_Segment(k) ==
    LET first == Len(C30_AllRows) - C30_Sum(re.last_group_rows)
                   + C30_Sum(SubSeq(re.last_group_rows, 1, k - 1))
    IN  SubSeq(C30_AllRows, first + 1, first + re.last_group_rows[k])

\* the rate a price entry stands for: a missing key reads as 0
C30_RateOf(price) ==
    IF price.negotiated_rate = NoRateKey THEN 0 ELSE price.negotiated_rate

\* C30: for the item handled last (not dropped by the CPT whitelist, no write
\* failed), every rate group that is not skipped emitted |eligible ids| x
\* |prices| rows, each carrying an eligible id of that group, one row for every
\* pair of an eligible id and a price entry.
C30_RowsAreCrossProduct ==
    (re_pc = "streaming" /\ re.items_handled > 0
       /\ ~(re.cpt_whitelist # {} /\ re.last_item.billing_code \notin re.cpt_whitelist)) =>
      /\ Len(re.last_group_rows) = Len(re.last_item.negotiated_rates)
      /\ \A k \in 1..Len(re.last_group_rows) :
           LET rate_group == re.last_item.negotiated_rates[k]
               eligible == C30_Eligible(rate_group)
               prices == rate_group.negotiated_prices
               segment == C30_Segment(k)
           IN  ~(re.provider_group_filter # {} /\ eligible = {}) =>
                 /\ re.last_group_rows[k] = Cardinality(eligible) * Len(prices)
                 /\ \A j \in 1..Len(segment) :
                      segment[j].provider_reference_id \in eligible
                 /\ \A id \in eligible, n \in 1..Len(prices) :
                      Cardinality({j \in 1..Len(segment) :
                         /\ segment[j].provider_reference_id = id
                         /\ segment[j].negotiated_rate = C30_RateOf(prices[n])
                         /\ segment[j].negotiated_type = prices[n].negotiated_type}) = 1

\* C30 witness: filter {1,2}; the item's first rate group (providers [2,3], one
\* price) gave one row, its second (providers [1,2], two prices) gave four.
C30_Witness ==
    /\ re_pc = "streaming" /\ re.provider_group_filter = {1, 2}
    /\ re.cpt_whitelist = {}
    /\ re.last_item.negotiated_rates = <<RGc, RGa>>
    /\ re.last_group_rows = <<1, 4>>
    /\ re.items_handled = 2

\* ---------------------------------------------------------------------------
\* C31: between two operations of an extractor no full batch stays in memory:
\* after an append whose flush check completed, the provider extractor's buffer
\* and the rate extractor's buffer hold fewer rows than batch_size. (A flush
\* that found the file locked raised out of the handler and is not a completed
\* flush check.)
C31_BufferBelowBatchSize ==
    /\ pe_pc # "idle" => Len(pe.providers_batch) < pe.batch_size
    /\ (re_pc # "idle" /\ re.lock_hits = 0) =>
         Len(re.rates_batch) < re.batch_size

\* C31 witness: batch size 3; the item's rows took the buffer to 3, the flush
\* wrote them, and one more row is buffered.
C31_Witness ==
    /\ re_pc = "streaming" /\ re.batch_size = 3 /\ re.lock_hits = 0
    /\ re.rates_generated = 4 /\ re.rates_written = 3
    /\ Len(re.rates_batch) = 1 /\ re.call_flushes = 1

\* C34: a price entry without a negotiated_rate value never raises, and the
\* rows carry no rate other than a parsed number or zero.
C34_MissingRateIsZero ==
    re_pc # "idle" =>
      /\ re.float_errors = 0
      /\ \A k \in 1..Len(C30_AllRows) : C30_AllRows[k].negotiated_rate >= 0

\* C38: when process_file is left, by return or by an exception, no
\* ParquetWriter is open.
C38_WriterClosedOnEveryExit ==
    re_pc \in {"done", "crashed"} => re.writer = "none"

\* C39: rows written + rows buffered = rows generated in every state of both
\* extractors, and when process_file has returned the buffer is empty and
\* written = generated.
C39_RowAccounting ==
    /\ pe_pc # "idle" =>
         pe.providers_written + Len(pe.providers_batch) = pe.providers_processed
    /\ re_pc # "idle" =>
         re.rates_written + Len(re.rates_batch) = re.rates_generated
    /\ pe_pc = "done" =>
         pe.providers_batch = <<>> /\ pe.providers_written = pe.providers_processed
    /\ re_pc = "done" =>
         re.rates_batch = <<>> /\ re.rates_written = re.rates_generated

\* C39 witness: batch size 2, two rows flushed and a third buffered while the
\* stream is still being read.
C39_Witness ==
    /\ re_pc = "streaming" /\ re.batch_size = 2
    /\ re.rates_written = 2 /\ Len(re.rates_batch) = 1
    /\ re.rates_generated = 3

\* ---------------------------------------------------------------------------
\* C32: the schema fixed at the first flush is the schema of every table
\* written, and a later batch of another shape is aligned and written: no
\* flush fails and every batch handed to a flush is in the file.
C32_LaterBatchAligned ==
    (sw_pc # "idle" /\ sw.batches # <<>>) =>
      /\ sw.schema = sw.batches[1]
      /\ \A k \in 1..Len(sw.written) : sw.written[k] = sw.schema
      /\ sw_pc # "failed"
      /\ Len(sw.written) = Len(sw.batches)

\* the number of events after which the scan is to stop: the first event at
\* which the four keys have all been observed or a large array begins
C33_StopPoint(events) ==
    LET stops == {k \in 1..Len(events) :
                    \/ events[k] \in LargeArrays
                    \/ MetadataKeys \subseteq {events[j] : j \in 1..k}}
    IN  IF stops = {} THEN Len(events)
        ELSE CHOOSE k \in stops : \A other \in stops : k <= other

\* C33: the metadata scan never reads past the point where the four scalar
\* fields have been observed or the first large array begins.
C33_ScanStopsEarly ==
    ms_pc # "idle" => ms.read <= C33_StopPoint(ms.events)

\* C35: every result recorded as success names a providers file and a rates
\* file, both written by that task's own run and neither a derived file.
C35_OwnOutputFilesRecorded ==
    od_pc # "idle" =>
      \A k \in 1..Len(od.results) :
        od.results[k].success =>
          /\ od.results[k].providers.kind = "providers"
          /\ od.results[k].providers.owner = k
          /\ ~od.results[k].providers.derived
          /\ od.results[k].rates.kind = "rates"
          /\ od.results[k].rates.owner = k
          /\ ~od.results[k].rates.derived

\* the entries of a manifest with status "success"
C36_Successes(extractions) ==
    Cardinality({k \in 1..Len(extractions) : extractions[k].status = "success"})

\* C36: the summary of the final manifest counts its entries (successful = the
\* entries with status success, failed = the others, successful + failed =
\* total = total_tasks = number of entries); and in a sequential run the
\* counters add up to the entries of the manifest written after each task.
C36_SummaryMatchesEntries ==
    /\ ob_pc = "returned" =>
         LET m == ob.manifest_file
         IN  /\ m.exists
             /\ m.summary.successful = C36_Successes(m.extractions)
             /\ m.summary.failed = Len(m.extractions) - C36_Successes(m.extractions)
             /\ m.summary.successful + m.summary.failed = m.summary.total
             /\ m.summary.total = ob.n
             /\ Len(m.extractions) = ob.n
    /\ (ob_pc = "loop" /\ ob.workers = 1 /\ ob.manifest_file.exists) =>
         /\ ob.successful + ob.failed = Len(ob.manifest_file.extractions)
         /\ ob.successful = C36_Successes(ob.manifest_file.extractions)

\* C36 witness: a sequential batch of three tasks has returned with two
\* successes and one failure in the manifest.
C36_Witness ==
    /\ ob_pc = "returned" /\ ob.workers = 1 /\ ob.n = 3
    /\ ob.manifest_file.summary = [successful |-> 2, failed |-> 1, total |-> 3]
    /\ Len(ob.manifest_file.extractions) = 3

\* C37: every rate row of the workflow's rate pass carries a
\* provider_reference_id of the provider-group set of the cleaned provider
\* output, whatever that set is.
C37_RateRowsWithinProviderGroups ==
    wf_pc # "idle" =>
      LET rows == wf.rate_extractor.file_rows \o wf.rate_extractor.rates_batch
      IN  \A k \in 1..Len(rows) :
            rows[k].provider_reference_id \in GroupsOf(wf.cleaned_file.rows)

\* C40: no lookup is still calling after the requests the model lets it make,
\* whatever the registry answers.
C40_LookupReturnsWithinBound ==
    lk_pc # "idle" =>
      \A npi \in Npis : lk.tries[npi] >= MaxTries => lk.state[npi] = "returned"

=============================================================================
